---------------------------- MODULE Spec2Model ----------------------------
(***************************************************************************)
(* A model of nodecached: the in-memory Cache (src/unnamed/part_000, the   *)
(* class form of lib/memory.js), and the server side that drives it: the   *)
(* Interpreter (src/lib/commands.js), the line Parser (src/lib/parser.js)  *)
(* and the Connection of the TCP server (src/lib/server.js).               *)
(*                                                                         *)
(* Times are whole seconds: the source keeps milliseconds (Date.now(),     *)
(* 1000 * expirationSeconds); every time of the model is the source's      *)
(* value divided by 1000, so that a realistic clock fits TLC's integers.   *)
(*                                                                         *)
(* JavaScript values are records [type, s, n]: a string is the sequence s  *)
(* of its characters, a number is n.  Wire strings (command lines,         *)
(* responses) are sequences of characters and tokens joined with \o.       *)
(***************************************************************************)
EXTENDS Integers, Sequences, FiniteSets, TLC

VARIABLES
    cache,      \* the Cache object of the embedded API: records, totalItems, limits
    now,        \* Date.now(), in seconds
    nextTick,   \* number of purge callbacks queued with process.nextTick
    ret,        \* the last call made on the cache and what it returned
    lastSet,    \* per key: the last set(k, v, exp) with no later change of k
    conns,      \* the server's connections (parser, cache, output), what they received
    counted,    \* per key: the "incr k 1" commands received since "0" was stored
    timers,     \* the callbacks queued with setTimeout and the time each is due
    client      \* the Client of lib/client.js: its ServerConnections, its callbacks

vars == <<cache, now, nextTick, ret, lastSet, conns, counted, timers, client>>

-----------------------------------------------------------------------------
(* Bounds of the model.                                                    *)

\* largest value of totalItems: no store is modelled beyond it
MaxTotal == 2
\* most purge callbacks queued at once by calls made in the same tick
MaxPending == 2
\* longest value append and prepend are modelled to build, in characters
MaxLength == 3
\* seconds the clock is stepped one by one (before and after the 30 day jump)
MaxSeconds == 1
\* lines one parser is given
MaxLines == 4
\* data events the server handles, over all its connections
MaxCommands == 3
\* most timers flush_all has pending at once
MaxTimers == 2
\* events of its sockets a client handles
MaxEvents == 4
\* operations the caller of a client makes
MaxOperations == 2

-----------------------------------------------------------------------------
(* JavaScript values.                                                      *)

Str(s) == [type |-> "string", s |-> s, n |-> 0]
Num(n) == [type |-> "number", s |-> <<>>, n |-> n]
Bool(b) == [type |-> "boolean", s |-> <<>>, n |-> IF b THEN 1 ELSE 0]
Null == [type |-> "null", s |-> <<>>, n |-> 0]
Undefined == [type |-> "undefined", s |-> <<>>, n |-> 0]
\* a thrown Error with the given message
Thrown(message) == [type |-> "throw", s |-> <<message>>, n |-> 0]

True == Bool(TRUE)
False == Bool(FALSE)

\* !value
Falsy(v) ==
    \/ v.type \in {"null", "undefined"}
    \/ v = False
    \/ v = [type |-> "string", s |-> <<>>, n |-> 0]
    \/ v = [type |-> "number", s |-> <<>>, n |-> 0]

Digits == <<"0", "1", "2", "3", "4", "5", "6", "7", "8", "9">>

IsDigit(c) == \E i \in 1..Len(Digits) : Digits[i] = c

DigitValue(c) == (CHOOSE i \in 1..Len(Digits) : Digits[i] = c) - 1

\* the decimal number written by a sequence of digits
RECURSIVE DigitsValue(_)
DigitsValue(s) ==
    IF s = <<>> THEN 0
    ELSE 10 * DigitsValue(SubSeq(s, 1, Len(s) - 1)) + DigitValue(s[Len(s)])

\* the longest prefix of s made of digits
RECURSIVE DigitPrefix(_)
DigitPrefix(s) ==
    IF s = <<>> \/ ~IsDigit(Head(s)) THEN <<>>
    ELSE <<Head(s)>> \o DigitPrefix(Tail(s))

\* the decimal digits of a natural number
RECURSIVE NatToString(_)
NatToString(n) ==
    IF n < 10 THEN <<Digits[n + 1]>>
    ELSE NatToString(n \div 10) \o <<Digits[(n % 10) + 1]>>

\* String(n) for an integer n
NumberToString(n) == IF n < 0 THEN <<"-">> \o NatToString(-n) ELSE NatToString(n)

\* the characters JavaScript converts a value to before parsing it
ValueText(v) ==
    CASE v.type = "string" -> v.s
      [] v.type = "number" -> NumberToString(v.n)
      [] OTHER -> <<v.type>>

\* prototypes.isNumber(value): the value reads as a finite number; over the
\* characters of the model (digits, "-", letters) that is -?[0-9]+
IsNumber(v) ==
    LET t == ValueText(v)
        body == IF t # <<>> /\ Head(t) = "-" THEN Tail(t) ELSE t
    IN  /\ v.type \in {"string", "number"}
        /\ body # <<>>
        /\ \A i \in 1..Len(body) : IsDigit(body[i])

\* parseInt(value, 10) of a value that has an integer prefix
ParseInt(v) ==
    LET t == ValueText(v)
    IN  IF t # <<>> /\ Head(t) = "-"
        THEN 0 - DigitsValue(DigitPrefix(Tail(t)))
        ELSE DigitsValue(DigitPrefix(t))

-----------------------------------------------------------------------------
(* Record (part_000:28-59).                                                *)

MAX_RELATIVE_SECONDS == 60 * 60 * 24 * 30

\* (mutant) only a positive expirationSeconds gives an expiration
Record_PositiveOnly(value, expirationSeconds, flags, t) ==
    [ value |-> value,
      flags |-> flags,
      expiration |->
          IF expirationSeconds > 0
          THEN IF expirationSeconds < MAX_RELATIVE_SECONDS
               THEN t + expirationSeconds
               ELSE expirationSeconds
          ELSE 0,
      expirationSeconds |-> <<>> ]

\* new Record(value, expirationSeconds, flags) at time t; a record that was
\* never touched has no expirationSeconds property (<<>>)
Record(value, expirationSeconds, flags, t) ==
    [ value |-> value,
      flags |-> flags,
      expiration |->
          IF expirationSeconds # 0
          THEN IF expirationSeconds < MAX_RELATIVE_SECONDS
               THEN t + expirationSeconds
               ELSE expirationSeconds
          ELSE 0,
      expirationSeconds |-> <<>> ]

\* (mutant) the comparison with the clock is reversed
Record_isValid_Reversed(record, t) ==
    IF record.expiration = 0 THEN TRUE ELSE record.expiration < t

Record_isValid(record, t) ==
    IF record.expiration = 0 THEN TRUE ELSE t < record.expiration

-----------------------------------------------------------------------------
(* Cache (part_000:68-472; the same methods as lib/memory.js:86-487).      *)
(* this.records is a JavaScript object: a list of (key, record) entries in *)
(* the order for..in visits them: integer keys in ascending order, then    *)
(* the other keys in the order of their first insertion.                   *)

\* new Cache({maxRecords, maxSizeMb})
Cache(maxRecords, maxSizeMb) ==
    [ records |-> <<>>,
      maxRecords |-> maxRecords,
      maxSizeMb |-> maxSizeMb,
      totalItems |-> 0 ]

\* key in records
HasKey(records, key) == \E i \in 1..Len(records) : records[i].key = key

IndexOf(records, key) == CHOOSE i \in 1..Len(records) : records[i].key = key

\* records[key], for a key in records
RecordOf(records, key) == records[IndexOf(records, key)].record

\* the key is the text of an integer (an integer index), here one digit:
\* for..in visits such keys first, in ascending order, whenever they were
\* set.  The keys of the model are strings, or sequences of characters when
\* they come off the wire, and are told apart by their texts.
IsIndexKey(key) == \E i \in 1..Len(Digits) : ToString(key) = ToString(Digits[i])

\* the number of entries for..in visits before a new property key
RECURSIVE Before(_, _)
Before(records, key) ==
    IF records = <<>> THEN 0
    ELSE IF ~IsIndexKey(key) THEN Len(records)
    ELSE IF IsIndexKey(Head(records).key)
            /\ DigitValue(Head(records).key) < DigitValue(key)
    THEN 1 + Before(Tail(records), key)
    ELSE 0

\* records[key] = record: an existing property keeps its place, a new one
\* comes last unless it is an integer index
PutRecord(records, key, record) ==
    IF HasKey(records, key)
    THEN [records EXCEPT ![IndexOf(records, key)].record = record]
    ELSE SubSeq(records, 1, Before(records, key))
             \o <<[key |-> key, record |-> record]>>
             \o SubSeq(records, Before(records, key) + 1, Len(records))

\* (mutant) delete removes the first property, whatever the key
DeleteRecord_First(records, key) ==
    IF records = <<>> THEN records ELSE Tail(records)

\* delete records[key]
DeleteRecord(records, key) ==
    IF HasKey(records, key)
    THEN LET i == IndexOf(records, key)
         IN  SubSeq(records, 1, i - 1) \o SubSeq(records, i + 1, Len(records))
    ELSE records

\* records.countProperties()
CountProperties(records) == Len(records)

Cache_contains(c, key, t) ==
    IF ~HasKey(c.records, key) THEN FALSE
    ELSE IF ~Record_isValid(RecordOf(c.records, key), t) THEN FALSE
    ELSE TRUE

Cache_get(c, key, t) ==
    IF ~Cache_contains(c, key, t) THEN Null
    ELSE RecordOf(c.records, key).value

\* What a call on the cache gives: the cache after it, the value returned
\* (or the Error thrown) and the number of purge callbacks it queued.
Outcome(c, result, ticks) == [cache |-> c, result |-> result, ticks |-> ticks]

\* (mutant) set does not count the item
Cache_set_NoCount(c, key, value, expirationSeconds, flags, t) ==
    Outcome([c EXCEPT
                !.records = PutRecord(c.records, key,
                                Record(value, expirationSeconds, flags, t))],
            True, 1)

Cache_set(c, key, value, expirationSeconds, flags, t) ==
    Outcome([c EXCEPT
                !.records = PutRecord(c.records, key,
                                Record(value, expirationSeconds, flags, t)),
                !.totalItems = c.totalItems + 1],
            True, 1)

\* (mutant) add looks only at the presence of the key, not at its validity
Cache_add_KeyOnly(c, key, value, expirationSeconds, flags, t) ==
    IF HasKey(c.records, key) THEN Outcome(c, False, 0)
    ELSE Cache_set(c, key, value, expirationSeconds, flags, t)

Cache_add(c, key, value, expirationSeconds, flags, t) ==
    IF Cache_contains(c, key, t) THEN Outcome(c, False, 0)
    ELSE Cache_set(c, key, value, expirationSeconds, flags, t)

Cache_replace(c, key, value, expirationSeconds, flags, t) ==
    IF ~Cache_contains(c, key, t) THEN Outcome(c, False, 0)
    ELSE Cache_set(c, key, value, expirationSeconds, flags, t)

Cache_delete(c, key, t) ==
    IF ~Cache_contains(c, key, t) THEN Outcome(c, False, 0)
    ELSE Outcome([c EXCEPT !.records = DeleteRecord(c.records, key)], True, 1)

NonNumericMessage == "cannot increment or decrement non-numeric value"

\* (mutant) incr without the clamp at zero
Cache_incr_NoClamp(c, key, value, t) ==
    IF ~Cache_contains(c, key, t) THEN Outcome(c, False, 0)
    ELSE LET record == RecordOf(c.records, key)
             result == ParseInt(record.value) + value
         IN  IF ~IsNumber(record.value)
             THEN Outcome(c, Thrown(NonNumericMessage), 0)
             ELSE Outcome([c EXCEPT !.records = PutRecord(c.records, key,
                                        [record EXCEPT !.value = Num(result)])],
                          Num(result), 0)

\* incr(key, value): value is the signed amount
Cache_incr(c, key, value, t) ==
    IF ~Cache_contains(c, key, t) THEN Outcome(c, False, 0)
    ELSE LET record == RecordOf(c.records, key)
             original == ParseInt(record.value)
             sum == original + value
             result == IF sum < 0 THEN 0 ELSE sum
         IN  IF ~IsNumber(record.value)
             THEN Outcome(c, Thrown(NonNumericMessage), 0)
             ELSE Outcome([c EXCEPT !.records = PutRecord(c.records, key,
                                        [record EXCEPT !.value = Num(result)])],
                          Num(result), 0)

Cache_decr(c, key, value, t) == Cache_incr(c, key, 0 - value, t)

\* touch(key, expirationSeconds): the new property expirationSeconds is set
\* on the record; record.expiration is not assigned
Cache_touch(c, key, expirationSeconds, t) ==
    IF ~Cache_contains(c, key, t) THEN Outcome(c, False, 0)
    ELSE LET record == RecordOf(c.records, key)
         IN  Outcome([c EXCEPT !.records = PutRecord(c.records, key,
                         [record EXCEPT !.expirationSeconds = <<expirationSeconds>>])],
                     True, 1)

\* JSON.stringify(value)
JSONStringify(v) ==
    CASE v.type = "number" -> Str(NumberToString(v.n))
      [] v.type = "boolean" -> Str(IF v = True THEN <<"true">> ELSE <<"false">>)
      [] v.type = "null" -> Str(<<"null">>)
      [] OTHER -> v

\* left + right when one of them is a string
Concat(left, right) == Str(ValueText(left) \o ValueText(right))

\* getStringRecord(key, modify) up to the call of modify: the record with
\* its value as a string
StringRecord(record) ==
    IF record.value.type # "string"
    THEN [record EXCEPT !.value = JSONStringify(record.value)]
    ELSE record

\* (mutant) append puts the new value in front
Cache_append_InFront(c, key, value, t) ==
    IF ~Cache_contains(c, key, t) THEN Outcome(c, False, 0)
    ELSE Outcome([c EXCEPT !.records = PutRecord(c.records, key,
                     [StringRecord(RecordOf(c.records, key)) EXCEPT
                         !.value = Concat(value, @)])],
                 True, 0)

Cache_append(c, key, value, t) ==
    IF ~Cache_contains(c, key, t) THEN Outcome(c, False, 0)
    ELSE Outcome([c EXCEPT !.records = PutRecord(c.records, key,
                     [StringRecord(RecordOf(c.records, key)) EXCEPT
                         !.value = Concat(@, value)])],
                 True, 0)

Cache_prepend(c, key, value, t) ==
    IF ~Cache_contains(c, key, t) THEN Outcome(c, False, 0)
    ELSE Outcome([c EXCEPT !.records = PutRecord(c.records, key,
                     [StringRecord(RecordOf(c.records, key)) EXCEPT
                         !.value = Concat(value, @)])],
                 True, 0)

\* (mutant) flush leaves the first record in the map
Cache_flush_KeepsFirst(c) ==
    Outcome([c EXCEPT !.records = IF c.records = <<>> THEN <<>>
                                  ELSE <<Head(c.records)>>],
            True, 0)

\* flush(): this.records = {} on whatever object the call has as this
Cache_flush(c) == Outcome([c EXCEPT !.records = <<>>], True, 0)

\* the Timeout object setTimeout(callback, 1000 * expiration) makes at time
\* t; it has no property records
Timeout(callback, expiration, t) ==
    [callback |-> callback, due |-> t + expiration, records |-> <<>>]

\* flush_all(expiration): setTimeout(this.flush, ...); the function is passed
\* without its object.  The outcome carries the timer in place of ticks.
Cache_flush_all(c, expiration, t) ==
    [cache |-> c, result |-> True, ticks |-> 0,
     timer |-> Timeout("flush", expiration, t)]

\* the timer's callback runs: Node calls it with the Timeout object as this,
\* so that flush assigns the records property of the timer
Timeout_onTimeout(timer) ==
    IF timer.callback = "flush" THEN Cache_flush(timer).cache ELSE timer

\* (mutant) getRecord looks the key up with contains
Cache_getRecord_Valid(c, key, t) ==
    IF Cache_contains(c, key, t) THEN <<RecordOf(c.records, key)>> ELSE <<>>

\* getRecord(key): records[key], <<>> for undefined
Cache_getRecord(c, key, t) ==
    IF HasKey(c.records, key) THEN <<RecordOf(c.records, key)>> ELSE <<>>

\* getItem(key)
Cache_getItem(c, key, t) ==
    IF ~Cache_contains(c, key, t) THEN Null
    ELSE RecordOf(c.records, key).value

\* itemOptions of setItem: expirationSeconds is 0 when not given,
\* expirationAbsolute is <<>> when not given and holds the time of the
\* Date, in seconds, when given
ItemOptions(expirationSeconds, expirationAbsolute) ==
    <<[expirationSeconds |-> expirationSeconds,
       expirationAbsolute |-> expirationAbsolute]>>

\* the lifetime setItem computes: (Date.now() - expirationAbsolute.getTime())
\* / 1000 when the absolute time is given
Lifetime(itemOptions, t) ==
    IF itemOptions = <<>> THEN 0
    ELSE IF itemOptions[1].expirationAbsolute # <<>>
    THEN t - itemOptions[1].expirationAbsolute[1]
    ELSE IF itemOptions[1].expirationSeconds # 0
    THEN itemOptions[1].expirationSeconds
    ELSE 0

\* setItem(key, value, itemOptions): this.set(key, value, lifetime, 0), and
\* nothing is returned
Cache_setItem(c, key, value, itemOptions, t) ==
    [Cache_set(c, key, value, Lifetime(itemOptions, t), 0, t)
        EXCEPT !.result = Undefined]

Cache_size(c) == CountProperties(c.records)

\* cache.version(): the name and version of package.json
Cache_version == <<"nodecached", "-", "version">>

\* cache.stats(type), each value as the text the response shows; what the
\* process and the machine decide (pid, uptime, rss, port) is left a name
Cache_stats(c, t) ==
    << <<"pid", <<"process.pid">> >>,
       <<"uptime", <<"process.uptime()">> >>,
       <<"time", NumberToString(t)>>,
       <<"version", Cache_version>>,
       <<"curr_items", NumberToString(CountProperties(c.records))>>,
       <<"total_items", NumberToString(c.totalItems)>>,
       <<"bytes", <<"process.memoryUsage().rss">> >>,
       <<"max_bytes", NumberToString(c.maxSizeMb * 1024 * 1024)>>,
       <<"tcpport", <<"options.port">> >>,
       <<"num_threads", <<"1">> >>,
       <<"cas_enabled", <<"no">> >>,
       <<"evictions", <<"on">> >> >>

\* (mutant) the loop deletes from the end of the order of for..in
RECURSIVE PurgeLoop_LastFirst(_, _)
PurgeLoop_LastFirst(records, maxRecords) ==
    IF records = <<>> THEN records
    ELSE LET rest == SubSeq(records, 1, Len(records) - 1)
         IN  IF CountProperties(rest) < maxRecords THEN rest
             ELSE PurgeLoop_LastFirst(rest, maxRecords)

\* purgeRecords(): delete in for..in order until the count is below maxRecords
RECURSIVE PurgeLoop(_, _)
PurgeLoop(records, maxRecords) ==
    IF records = <<>> THEN records
    ELSE LET rest == Tail(records)
         IN  IF CountProperties(rest) < maxRecords THEN rest
             ELSE PurgeLoop(rest, maxRecords)

\* (mutant) a count equal to maxRecords is left alone
Cache_purgeRecords_Above(c) ==
    IF CountProperties(c.records) <= c.maxRecords THEN c
    ELSE [c EXCEPT !.records = PurgeLoop(c.records, c.maxRecords)]

\* (mutant) the test of the count is inverted
Cache_purgeRecords_Inverted(c) ==
    IF CountProperties(c.records) > c.maxRecords THEN c
    ELSE [c EXCEPT !.records = PurgeLoop(c.records, c.maxRecords)]

Cache_purgeRecords(c) ==
    IF CountProperties(c.records) < c.maxRecords THEN c
    ELSE [c EXCEPT !.records = PurgeLoop(c.records, c.maxRecords)]

\* the records left by the first loop of purgeMemory: the valid ones
ValidRecords(records, t) ==
    SelectSeq(records, LAMBDA e : Record_isValid(e.record, t))

\* the second loop of purgeMemory: usageMb is not sampled again, so its test
\* usageMb < maxSizeMb is false at every step and every record is deleted
RECURSIVE PurgeMemoryLoop(_, _, _)
PurgeMemoryLoop(records, usageMb, maxSizeMb) ==
    IF records = <<>> THEN records
    ELSE IF usageMb < maxSizeMb THEN Tail(records)
    ELSE PurgeMemoryLoop(Tail(records), usageMb, maxSizeMb)

\* purgeMemory() when process.memoryUsage().rss is usageMb megabytes
Cache_purgeMemory(c, usageMb, t) ==
    IF usageMb < c.maxSizeMb THEN c
    ELSE LET swept == ValidRecords(c.records, t)
         IN  IF usageMb < c.maxSizeMb THEN [c EXCEPT !.records = swept]
             ELSE [c EXCEPT !.records =
                      PurgeMemoryLoop(swept, usageMb, c.maxSizeMb)]

\* purge(), the callback queued by set, delete and touch
Cache_purge(c, usageMb, t) ==
    LET byCount == IF c.maxRecords # 0 THEN Cache_purgeRecords(c) ELSE c
    IN  IF byCount.maxSizeMb # 0 THEN Cache_purgeMemory(byCount, usageMb, t)
        ELSE byCount

-----------------------------------------------------------------------------
(* The embedded cache: a program calling the methods of one Cache object.  *)
(* Calls made in the same tick run before the purge callbacks they queued; *)
(* the clock may advance between any two steps.                            *)

Keys == {"a", "b"}

\* "2" and "ab"
Values == {Str(<<"2">>), Str(<<"a", "b">>)}

FlagsSet == {1}

\* the clock when the cache is built: 60 days after the epoch
StartTime == 2 * MAX_RELATIVE_SECONDS

\* expirationSeconds given to set, add, replace and touch: never, relative
\* (future and past), the 30 day limit and the second after it, and an
\* absolute time one second ahead of StartTime
Expirations ==
    {0, 1, 0 - 1, MAX_RELATIVE_SECONDS, MAX_RELATIVE_SECONDS + 1, StartTime + 1}

Amounts == {1, 3}

\* the largest number incr is modelled to reach
MaxNumber == 4

\* new Cache(options) for these options
MaxRecordsOptions == {0, 1, 2}
MaxSizeMbOptions == {0, 1}

\* process.memoryUsage().rss in megabytes, as a purge may sample it
UsagesMb == {0, 1}

NoSet == <<>>

\* a call on the cache: the method, its key, its expirationSeconds or amount
NoCall ==
    [op |-> "none", key |-> "", exp |-> 0, amount |-> 0, result |-> Undefined,
     conn |-> "", value |-> Undefined, responses |-> 0, state |-> "",
     record |-> <<>>]

CallOf(op, key, result) == [NoCall EXCEPT !.op = op, !.key = key, !.result = result]

\* a method returns o: the cache is the method's, its purge callbacks are queued
Returns(o, call) ==
    /\ nextTick + o.ticks <= MaxPending
    /\ cache' = o.cache
    /\ nextTick' = nextTick + o.ticks
    /\ ret' = [call EXCEPT !.result = o.result]
    /\ UNCHANGED <<now, conns, counted, timers, client>>

Stored(o) == o.result = True

\* the value of a call that changed the record of its key
Changed(o) == o.result.type = "number" \/ o.result = True

SetRecord(value, exp, flags) ==
    <<[value |-> value, exp |-> exp, flags |-> flags, at |-> now]>>

\* cache.set(key, value, exp, flags), and add and replace, for exp in exps
SetCall(keys, values, exps, flagsSet) ==
    \E key \in keys, value \in values, exp \in exps, flags \in flagsSet :
        LET o == Cache_set(cache, key, value, exp, flags, now)
        IN  /\ cache.totalItems < MaxTotal
            /\ Returns(o, [NoCall EXCEPT !.op = "set", !.key = key, !.exp = exp])
            /\ lastSet' = [lastSet EXCEPT ![key] = SetRecord(value, exp, flags)]

AddCall(keys, values, exps, flagsSet) ==
    \E key \in keys, value \in values, exp \in exps, flags \in flagsSet :
        LET o == Cache_add(cache, key, value, exp, flags, now)
        IN  /\ cache.totalItems < MaxTotal
            /\ Returns(o, [NoCall EXCEPT !.op = "add", !.key = key, !.exp = exp])
            /\ lastSet' = IF Stored(o)
                          THEN [lastSet EXCEPT ![key] = SetRecord(value, exp, flags)]
                          ELSE lastSet

ReplaceCall(keys, values, exps, flagsSet) ==
    \E key \in keys, value \in values, exp \in exps, flags \in flagsSet :
        LET o == Cache_replace(cache, key, value, exp, flags, now)
        IN  /\ cache.totalItems < MaxTotal
            /\ Returns(o, [NoCall EXCEPT !.op = "replace", !.key = key, !.exp = exp])
            /\ lastSet' = IF Stored(o)
                          THEN [lastSet EXCEPT ![key] = SetRecord(value, exp, flags)]
                          ELSE lastSet

GetCall(keys) ==
    \E key \in keys :
        /\ Returns(Outcome(cache, Cache_get(cache, key, now), 0),
                   CallOf("get", key, Undefined))
        /\ UNCHANGED lastSet

DeleteCall(keys) ==
    \E key \in keys :
        LET o == Cache_delete(cache, key, now)
        IN  /\ Returns(o, CallOf("delete", key, Undefined))
            /\ lastSet' = IF Changed(o)
                          THEN [lastSet EXCEPT ![key] = NoSet] ELSE lastSet

IncrCall(keys) ==
    \E key \in keys, amount \in Amounts :
        LET o == Cache_incr(cache, key, amount, now)
        IN  /\ o.result.type = "number" => o.result.n <= MaxNumber
            /\ Returns(o, [NoCall EXCEPT !.op = "incr", !.key = key,
                              !.amount = amount])
            /\ lastSet' = IF Changed(o)
                          THEN [lastSet EXCEPT ![key] = NoSet] ELSE lastSet

DecrCall(keys) ==
    \E key \in keys, amount \in Amounts :
        LET o == Cache_decr(cache, key, amount, now)
        IN  /\ Returns(o, [NoCall EXCEPT !.op = "decr", !.key = key,
                              !.amount = amount])
            /\ lastSet' = IF Changed(o)
                          THEN [lastSet EXCEPT ![key] = NoSet] ELSE lastSet

TouchCall(keys, exps) ==
    \E key \in keys, exp \in exps :
        LET o == Cache_touch(cache, key, exp, now)
        IN  /\ Returns(o, [NoCall EXCEPT !.op = "touch", !.key = key, !.exp = exp])
            /\ lastSet' = IF Changed(o)
                          THEN [lastSet EXCEPT ![key] = NoSet] ELSE lastSet

\* the value of key is short enough to be appended to
Appendable(key) ==
    HasKey(cache.records, key) =>
        Len(ValueText(RecordOf(cache.records, key).value)) < MaxLength

AppendCall(keys, values) ==
    \E key \in keys, value \in values :
        /\ Appendable(key)
        /\ Returns(Cache_append(cache, key, value, now),
                   [NoCall EXCEPT !.op = "append", !.key = key, !.value = value])
        /\ lastSet' = IF Cache_contains(cache, key, now)
                      THEN [lastSet EXCEPT ![key] = NoSet] ELSE lastSet

PrependCall(keys, values) ==
    \E key \in keys, value \in values :
        /\ Appendable(key)
        /\ Returns(Cache_prepend(cache, key, value, now),
                   [NoCall EXCEPT !.op = "prepend", !.key = key, !.value = value])
        /\ lastSet' = IF Cache_contains(cache, key, now)
                      THEN [lastSet EXCEPT ![key] = NoSet] ELSE lastSet

FlushCall ==
    /\ Returns(Cache_flush(cache), CallOf("flush", "", Undefined))
    /\ lastSet' = [k \in Keys |-> NoSet]

\* an object returned by a call
Obj == [type |-> "object", s |-> <<>>, n |-> 0]

GetRecordCall(keys) ==
    \E key \in keys :
        LET record == Cache_getRecord(cache, key, now)
        IN  /\ Returns(Outcome(cache, IF record = <<>> THEN Undefined ELSE Obj, 0),
                       [NoCall EXCEPT !.op = "getRecord", !.key = key,
                                      !.record = record])
            /\ UNCHANGED lastSet

\* cache.flush_all(expiration) queues a timer
FlushAllCall(delays) ==
    \E expiration \in delays :
        LET o == Cache_flush_all(cache, expiration, now)
        IN  /\ Len(timers) < MaxTimers
            /\ cache' = o.cache
            /\ timers' = Append(timers, o.timer)
            /\ ret' = [NoCall EXCEPT !.op = "flush_all", !.exp = expiration,
                                     !.result = o.result]
            /\ UNCHANGED <<now, nextTick, lastSet, conns, counted, client>>

\* a timer that is due fires: its callback runs on the Timeout object and
\* the timer leaves the list
TimerFires ==
    \E i \in 1..Len(timers) :
        /\ timers[i].due <= now
        /\ timers' = SubSeq(timers, 1, i - 1) \o SubSeq(timers, i + 1, Len(timers))
        /\ ret' = [NoCall EXCEPT !.op = "timeout", !.exp = timers[i].due,
                                 !.record = <<Timeout_onTimeout(timers[i])>>]
        /\ UNCHANGED <<cache, now, nextTick, lastSet, conns, counted, client>>

\* a purge callback queued with process.nextTick runs
\* (mutant) get deletes the record it finds expired
Cache_getOutcome_Evicts(c, key, t) ==
    IF HasKey(c.records, key) /\ ~Cache_contains(c, key, t)
    THEN Outcome([c EXCEPT !.records = DeleteRecord(c.records, key)], Null, 0)
    ELSE Outcome(c, Cache_get(c, key, t), 0)

\* what get(key) gives: its value, the cache it assigns nothing of, and no
\* purge queued
Cache_getOutcome(c, key, t) == Outcome(c, Cache_get(c, key, t), 0)

\* cache.get(key), for the frame of the call
ReadCall(keys) ==
    \E key \in keys :
        /\ Returns(Cache_getOutcome(cache, key, now), CallOf("get", key, Undefined))
        /\ UNCHANGED lastSet

\* cache.contains(key)
ContainsCall(keys) ==
    \E key \in keys :
        /\ Returns(Outcome(cache, Bool(Cache_contains(cache, key, now)), 0),
                   CallOf("contains", key, Undefined))
        /\ UNCHANGED lastSet

\* cache.size()
SizeCall ==
    /\ Returns(Outcome(cache, Num(Cache_size(cache)), 0),
               CallOf("size", "", Undefined))
    /\ UNCHANGED lastSet

\* cache.stats(): the object returned is kept as the list of its properties
StatsCall ==
    /\ Returns(Outcome(cache, Obj, 0),
               [NoCall EXCEPT !.op = "stats", !.record = Cache_stats(cache, now)])
    /\ UNCHANGED lastSet

\* cache.version()
VersionCall ==
    /\ Returns(Outcome(cache, Str(Cache_version), 0),
               CallOf("version", "", Undefined))
    /\ UNCHANGED lastSet

\* cache.setItem(key, value, itemOptions)
SetItemCall(keys, values, optionsSet) ==
    \E key \in keys, value \in values, itemOptions \in optionsSet :
        LET o == Cache_setItem(cache, key, value, itemOptions, now)
        IN  /\ cache.totalItems < MaxTotal
            /\ Returns(o, CallOf("setItem", key, Undefined))
            /\ lastSet' = [lastSet EXCEPT ![key] =
                              <<[value |-> value, options |-> itemOptions,
                                 at |-> now]>>]

\* cache.getItem(key)
GetItemCall(keys) ==
    \E key \in keys :
        /\ Returns(Outcome(cache, Cache_getItem(cache, key, now), 0),
                   CallOf("getItem", key, Undefined))
        /\ UNCHANGED lastSet

PurgeRuns ==
    \E usageMb \in UsagesMb :
        /\ nextTick > 0
        /\ cache' = Cache_purge(cache, usageMb, now)
        /\ nextTick' = nextTick - 1
        /\ ret' = NoCall
        /\ UNCHANGED <<now, lastSet, conns, counted, timers, client>>

\* the clock advances by a second
SecondPasses ==
    /\ (now - StartTime) % MAX_RELATIVE_SECONDS < MaxSeconds
    /\ now' = now + 1
    /\ ret' = NoCall
    /\ UNCHANGED <<cache, nextTick, lastSet, conns, counted, timers, client>>

\* the clock advances by 30 days
MonthPasses ==
    /\ now - StartTime < MAX_RELATIVE_SECONDS
    /\ now' = now + MAX_RELATIVE_SECONDS
    /\ ret' = NoCall
    /\ UNCHANGED <<cache, nextTick, lastSet, conns, counted, timers, client>>

InitWith(configs) ==
    /\ cache \in configs
    /\ now = StartTime
    /\ nextTick = 0
    /\ ret = NoCall
    /\ lastSet = [k \in Keys |-> NoSet]
    /\ conns = <<>>
    /\ counted = <<>>
    /\ timers = <<>>
    /\ client = <<>>

-----------------------------------------------------------------------------
(* Spec: storing, reading and deleting under every configuration of the    *)
(* cache's limits, with expirations of a second.                           *)

ShortExpirations == {0, 1}
TouchExpirations == {1}

Init ==
    InitWith({Cache(m, s) : m \in MaxRecordsOptions, s \in MaxSizeMbOptions})

Set == SetCall(Keys, Values, ShortExpirations, FlagsSet)
Add == AddCall(Keys, Values, ShortExpirations, FlagsSet)
Replace == ReplaceCall(Keys, Values, ShortExpirations, FlagsSet)
Get == GetCall(Keys)
Delete == DeleteCall(Keys)
Touch == TouchCall(Keys, TouchExpirations)
Flush == FlushCall
Purge == PurgeRuns
Tick == SecondPasses

Next ==
    \/ Set
    \/ Add
    \/ Replace
    \/ Get
    \/ Delete
    \/ Touch
    \/ Flush
    \/ Purge
    \/ Tick

Spec == Init /\ [][Next]_vars

-----------------------------------------------------------------------------
(* SpecNumeric: incr and decr on one key of a cache without limits.        *)

NumericKeys == {"a"}

InitNumeric == InitWith({Cache(0, 0)})

NumericSet == SetCall(NumericKeys, Values, ShortExpirations, FlagsSet)
NumericGet == GetCall(NumericKeys)
NumericIncr == IncrCall(NumericKeys)
NumericDecr == DecrCall(NumericKeys)
NumericDelete == DeleteCall(NumericKeys)
NumericPurge == PurgeRuns
NumericTick == SecondPasses

NextNumeric ==
    \/ NumericSet
    \/ NumericGet
    \/ NumericIncr
    \/ NumericDecr
    \/ NumericDelete
    \/ NumericPurge
    \/ NumericTick

SpecNumeric == InitNumeric /\ [][NextNumeric]_vars

-----------------------------------------------------------------------------
(* SpecAppend: append and prepend on one key of a cache without limits,    *)
(* whose value is a string or, after incr, a number.                       *)

AppendKeys == {"a"}
AppendValues == {Str(<<"x">>), Str(<<"7">>)}

InitAppend == InitWith({Cache(0, 0)})

AppendSet == SetCall(AppendKeys, Values, ShortExpirations, FlagsSet)
AppendIncr == IncrCall(AppendKeys)
AppendAppend == AppendCall(AppendKeys, AppendValues)
AppendPrepend == PrependCall(AppendKeys, AppendValues)
AppendGet == GetCall(AppendKeys)
AppendPurge == PurgeRuns
AppendTick == SecondPasses

NextAppend ==
    \/ AppendSet
    \/ AppendIncr
    \/ AppendAppend
    \/ AppendPrepend
    \/ AppendGet
    \/ AppendPurge
    \/ AppendTick

SpecAppend == InitAppend /\ [][NextAppend]_vars

-----------------------------------------------------------------------------
(* SpecExpiry: records of every kind of expiration on one key of a cache   *)
(* without limits, while the clock runs for a month.                       *)

ExpiryKeys == {"a"}
ExpiryValues == {Str(<<"2">>)}
ExpiryFlags == {0, 1}

InitExpiry == InitWith({Cache(0, 0)})

ExpirySet == SetCall(ExpiryKeys, ExpiryValues, Expirations, ExpiryFlags)
ExpiryGet == GetCall(ExpiryKeys)
ExpiryTouch == TouchCall(ExpiryKeys, Expirations)
ExpirySecond == SecondPasses
ExpiryMonth == MonthPasses
ExpiryPurge == PurgeRuns

NextExpiry ==
    \/ ExpirySet
    \/ ExpiryGet
    \/ ExpiryTouch
    \/ ExpirySecond
    \/ ExpiryMonth
    \/ ExpiryPurge

SpecExpiry == InitExpiry /\ [][NextExpiry]_vars

-----------------------------------------------------------------------------
(* SpecFlush: flush, flush_all and its timers, and getRecord, on two keys  *)
(* of a cache without limits.                                              *)

\* the delays given to flush_all, in seconds
FlushDelays == {0, 1}
\* the value stored
FlushValues == {Str(<<"2">>)}

InitFlush == InitWith({Cache(0, 0)})

FlushSet == SetCall(Keys, FlushValues, ShortExpirations, FlagsSet)
FlushAdd == AddCall(Keys, FlushValues, ShortExpirations, FlagsSet)
FlushGet == GetCall(Keys)
FlushGetRecord == GetRecordCall(Keys)
FlushFlush == FlushCall
FlushAll == FlushAllCall(FlushDelays)
FlushTimeout == TimerFires
FlushPurge == PurgeRuns
FlushTick == SecondPasses

NextFlush ==
    \/ FlushSet
    \/ FlushAdd
    \/ FlushGet
    \/ FlushGetRecord
    \/ FlushFlush
    \/ FlushAll
    \/ FlushTimeout
    \/ FlushPurge
    \/ FlushTick

SpecFlush == InitFlush /\ [][NextFlush]_vars

-----------------------------------------------------------------------------
(* SpecItem: setItem and getItem (the jscache API) on two keys of a cache  *)
(* without limits, while the clock runs.                                   *)

\* no options, a second to live, and the absolute times one and two
\* seconds after StartTime
ItemOptionsSet ==
    { <<>>, ItemOptions(1, <<>>),
      ItemOptions(0, <<StartTime + 1>>), ItemOptions(0, <<StartTime + 2>>) }

ItemValues == {Str(<<"2">>)}

InitItem == InitWith({Cache(0, 0)})

ItemSet == SetItemCall(Keys, ItemValues, ItemOptionsSet)
ItemGet == GetItemCall(Keys)
ItemPurge == PurgeRuns
ItemTick == SecondPasses

NextItem == ItemSet \/ ItemGet \/ ItemPurge \/ ItemTick

SpecItem == InitItem /\ [][NextItem]_vars

-----------------------------------------------------------------------------
(* SpecEviction: records set under the keys 1, 2 and a in a cache that     *)
(* keeps fewer than one, two or three records.                             *)

EvictionKeys == {"1", "2", "a"}
EvictionValues == {Str(<<"2">>)}
EvictionCaches == {Cache(1, 0), Cache(2, 0), Cache(3, 0)}

InitEviction ==
    /\ cache \in EvictionCaches
    /\ now = StartTime
    /\ nextTick = 0
    /\ ret = NoCall
    /\ lastSet = [k \in EvictionKeys |-> NoSet]
    /\ conns = <<>>
    /\ counted = <<>>
    /\ timers = <<>>
    /\ client = <<>>

\* the set of a key, numbered (seq) when it inserts the key in the map: a
\* key that is in the map keeps the number of its insertion
Inserted(key, value) ==
    <<[value |-> value, exp |-> 0, flags |-> 0, at |-> now,
       seq |-> IF HasKey(cache.records, key) THEN lastSet[key][1].seq
               ELSE cache.totalItems + 1]>>

EvictionSet ==
    \E key \in EvictionKeys, value \in EvictionValues :
        /\ cache.totalItems < MaxTotal
        /\ Returns(Cache_set(cache, key, value, 0, 0, now),
                   [NoCall EXCEPT !.op = "set", !.key = key])
        /\ lastSet' = [lastSet EXCEPT ![key] = Inserted(key, value)]

EvictionGet == GetCall(EvictionKeys)
EvictionDelete == DeleteCall(EvictionKeys)
EvictionPurge == PurgeRuns

NextEviction == EvictionSet \/ EvictionGet \/ EvictionDelete \/ EvictionPurge

SpecEviction == InitEviction /\ [][NextEviction]_vars

-----------------------------------------------------------------------------
(* SpecMemory: records with and without expiration in a cache limited to   *)
(* one megabyte, while the resident size of the process goes up and down.  *)

InitMemory == InitWith({Cache(0, 1)})

\* a purge pass: purgeMemory samples the resident size once (usageMb); the
\* size the process has when the sweep of the expired records is over
\* (swept) is not read by the code
MemoryPurge ==
    \E usageMb \in UsagesMb, swept \in UsagesMb :
        /\ nextTick > 0
        /\ cache' = Cache_purge(cache, usageMb, now)
        /\ nextTick' = nextTick - 1
        /\ ret' = [NoCall EXCEPT !.op = "purge", !.amount = usageMb,
                                 !.exp = swept]
        /\ UNCHANGED <<now, lastSet, conns, counted, timers, client>>

MemorySet == SetCall(Keys, FlushValues, ShortExpirations, FlagsSet)
MemoryGet == GetCall(Keys)
MemoryTick == SecondPasses

NextMemory == MemorySet \/ MemoryGet \/ MemoryPurge \/ MemoryTick

SpecMemory == InitMemory /\ [][NextMemory]_vars

-----------------------------------------------------------------------------
(* SpecRead: the methods that read the cache, among sets, deletes,         *)
(* flushes and purges, on records that expire.                             *)

InitRead == InitWith({Cache(0, 0), Cache(2, 0)})

ReadSet == SetCall(Keys, FlushValues, ShortExpirations, FlagsSet)
ReadGet == ReadCall(Keys)
ReadGetItem == GetItemCall(Keys)
ReadGetRecord == GetRecordCall(Keys)
ReadContains == ContainsCall(Keys)
ReadSize == SizeCall
ReadStats == StatsCall
ReadVersion == VersionCall
ReadDelete == DeleteCall(Keys)
ReadFlush == FlushCall
ReadPurge == PurgeRuns
ReadTick == SecondPasses

NextRead ==
    \/ ReadSet
    \/ ReadGet
    \/ ReadGetItem
    \/ ReadGetRecord
    \/ ReadContains
    \/ ReadSize
    \/ ReadStats
    \/ ReadVersion
    \/ ReadDelete
    \/ ReadFlush
    \/ ReadPurge
    \/ ReadTick

SpecRead == InitRead /\ [][NextRead]_vars

-----------------------------------------------------------------------------
(* The server: characters, lines and words.                                *)

CR == "\r"
LF == "\n"
SP == " "
\* the byte 4, end of transmission
EOT == "EOT"
CRLF == <<CR, LF>>

IsSpace(c) == c \in {SP, CR, LF}

\* line.trim()
RECURSIVE TrimLeft(_)
TrimLeft(s) ==
    IF s # <<>> /\ IsSpace(Head(s)) THEN TrimLeft(Tail(s)) ELSE s

RECURSIVE TrimRight(_)
TrimRight(s) ==
    IF s # <<>> /\ IsSpace(s[Len(s)]) THEN TrimRight(SubSeq(s, 1, Len(s) - 1))
    ELSE s

Trim(s) == TrimRight(TrimLeft(s))

\* the characters of s before its first white space
RECURSIVE FirstWord(_)
FirstWord(s) ==
    IF s = <<>> \/ IsSpace(Head(s)) THEN <<>>
    ELSE <<Head(s)>> \o FirstWord(Tail(s))

\* s.split(/\s+/) of a trimmed string: the empty string gives one empty word
RECURSIVE SplitWords(_)
SplitWords(s) ==
    LET word == FirstWord(s)
        after == SubSeq(s, Len(word) + 1, Len(s))
    IN  IF after = <<>> THEN <<word>>
        ELSE <<word>> \o SplitWords(TrimLeft(after))

\* Number(word), for the words of the model: decimal integers
ToNumber(word) ==
    IF word # <<>> /\ Head(word) = "-" THEN 0 - DigitsValue(Tail(word))
    ELSE DigitsValue(word)

\* rightTrim(line, character)
RightTrim(line, character) ==
    IF line # <<>> /\ line[Len(line)] = character
    THEN SubSeq(line, 1, Len(line) - 1)
    ELSE line

-----------------------------------------------------------------------------
(* Interpreter (lib/commands.js:58-224) over its own Cache.                *)

W_get == <<"g", "e", "t">>
W_set == <<"s", "e", "t">>
W_add == <<"a", "d", "d">>
W_replace == <<"r", "e", "p", "l", "a", "c", "e">>
W_delete == <<"d", "e", "l", "e", "t", "e">>
W_incr == <<"i", "n", "c", "r">>
W_decr == <<"d", "e", "c", "r">>
W_touch == <<"t", "o", "u", "c", "h">>
W_quit == <<"q", "u", "i", "t">>
W_stats == <<"s", "t", "a", "t", "s">>
W_version == <<"v", "e", "r", "s", "i", "o", "n">>

\* the options object readCommand builds; a property the syntax does not
\* name is undefined (<<>> for the key, Undefined for value; flags, exptime
\* and bytes are numbers wherever the interpreter reads them)
NoOptions ==
    [key |-> <<>>, flags |-> 0, exptime |-> 0, bytes |-> 0, value |-> Undefined]

\* exports.resultMap[command][result], or no entry (<<>>)
ResultMap(command, result) ==
    CASE command = W_get /\ result = Null -> <<"END">>
      [] command \in {W_set, W_add, W_replace} /\ result = True -> <<"STORED">>
      [] command \in {W_set, W_add, W_replace} /\ result = False -> <<"NOT_STORED">>
      [] command = W_delete /\ result = True -> <<"DELETED">>
      [] command = W_delete /\ result = False -> <<"NOT_FOUND">>
      [] command \in {W_incr, W_decr} /\ result = False -> <<"NOT_FOUND">>
      [] command = W_touch /\ result = True -> <<"TOUCHED">>
      [] command = W_touch /\ result = False -> <<"NOT_FOUND">>
      [] OTHER -> <<>>

\* self.get(options): cache.get gives the value, not the record; the reader
\* then takes record.value of it, which no value of the model has, and
\* data.length throws a TypeError
Interpreter_get(c, options, t) ==
    LET record == Cache_get(c, options.key, t)
    IN  IF Falsy(record) THEN Outcome(c, record, 0)
        ELSE Outcome(c, Thrown("Cannot read property 'length' of undefined"), 0)

\* set(options, fn): the value stored is options.value
Interpreter_set(c, options, t) ==
    Cache_set(c, options.key, options.value, options.exptime, options.flags, t)

Interpreter_add(c, options, t) ==
    Cache_add(c, options.key, options.value, options.exptime, options.flags, t)

Interpreter_replace(c, options, t) ==
    Cache_replace(c, options.key, options.value, options.exptime, options.flags, t)

Interpreter_delete(c, options, t) == Cache_delete(c, options.key, t)

\* incrDecr(options, fn): String(result) unless the result is false
IncrDecr(o) ==
    IF o.result.type = "number"
    THEN [o EXCEPT !.result = Str(NumberToString(o.result.n))]
    ELSE o

Interpreter_incr(c, options, t) ==
    IncrDecr(Cache_incr(c, options.key, options.value.n, t))

Interpreter_decr(c, options, t) ==
    IncrDecr(Cache_decr(c, options.key, options.value.n, t))

Interpreter_touch(c, options, t) == Cache_touch(c, options.key, options.exptime, t)

\* one line of the stats response: 'STATS ' + key + ' ' + stats[key] + CRLF
StatLine(key, value) == <<"STATS ", key, " ">> \o value \o <<"\r", "\n">>

RECURSIVE StatLines(_)
StatLines(stats) ==
    IF stats = <<>> THEN <<>>
    ELSE StatLine(Head(stats)[1], Head(stats)[2]) \o StatLines(Tail(stats))

\* self.stats(options)
Interpreter_stats(c, options, t) ==
    Outcome(c, Str(StatLines(Cache_stats(c, t)) \o <<"END">>), 0)

\* self.version()
Interpreter_version(c) == Outcome(c, Str(<<"VERSION ">> \o Cache_version), 0)

\* commandFunction(options) for the commands of the parser's SYNTAXES
CommandFunction(c, command, options, t) ==
    CASE command = W_get -> Interpreter_get(c, options, t)
      [] command = W_set -> Interpreter_set(c, options, t)
      [] command = W_add -> Interpreter_add(c, options, t)
      [] command = W_replace -> Interpreter_replace(c, options, t)
      [] command = W_delete -> Interpreter_delete(c, options, t)
      [] command = W_incr -> Interpreter_incr(c, options, t)
      [] command = W_decr -> Interpreter_decr(c, options, t)
      [] command = W_touch -> Interpreter_touch(c, options, t)
      [] command = W_stats -> Interpreter_stats(c, options, t)
      [] command = W_version -> Interpreter_version(c)

\* the commands the interpreter of the model has a method for
InterpreterCommands ==
    {W_get, W_set, W_add, W_replace, W_delete, W_incr, W_decr, W_touch,
     W_stats, W_version}

\* the end of interpret: the result of the command function o, replaced by
\* its entry in the result map when it has one; an Error thrown passes
MapResult(command, o) ==
    IF o.result.type = "throw" \/ ResultMap(command, o.result) = <<>> THEN o
    ELSE [o EXCEPT !.result = Str(ResultMap(command, o.result))]

\* interpret(command, options): the third argument the parser passes, the
\* data, is not a parameter.  The result is the response as a value: a
\* string, or undefined, or the Error thrown.
Interpreter_interpret(c, command, options, t) ==
    IF command \notin InterpreterCommands THEN Outcome(c, Str(<<"ERROR">>), 0)
    ELSE MapResult(command, CommandFunction(c, command, options, t))

-----------------------------------------------------------------------------
(* Parser (lib/parser.js:269-403): one per connection, with its own        *)
(* Interpreter and so its own Cache.                                       *)

\* a syntax lists its arguments in order, each with its type
Argument(name, type) == [name |-> name, type |-> type]

GET_SYNTAX == <<Argument("key", "String")>>
SET_SYNTAX ==
    <<Argument("key", "String"), Argument("flags", "Number"),
      Argument("exptime", "Number"), Argument("bytes", "Number")>>
DELETE_SYNTAX == <<Argument("key", "String")>>
INCR_SYNTAX == <<Argument("key", "String"), Argument("value", "Number")>>
TOUCH_SYNTAX == <<Argument("key", "String"), Argument("exptime", "Number")>>
STATS_SYNTAX == <<Argument("argument", "OptionalString")>>
QUIT_SYNTAX == <<>>

\* the commands SYNTAXES has an entry for
SyntaxCommands ==
    {W_get, W_set, W_add, W_replace, W_delete, W_incr, W_decr, W_touch,
     W_stats, W_quit, W_version}

SYNTAXES(command) ==
    CASE command = W_get -> GET_SYNTAX
      [] command \in {W_set, W_add, W_replace} -> SET_SYNTAX
      [] command = W_delete -> DELETE_SYNTAX
      [] command \in {W_incr, W_decr} -> INCR_SYNTAX
      [] command = W_touch -> TOUCH_SYNTAX
      [] command = W_stats -> STATS_SYNTAX
      [] OTHER -> QUIT_SYNTAX

\* options[key] = type(word)
SetOption(options, name, word) ==
    CASE name = "key" -> [options EXCEPT !.key = word]
      [] name = "flags" -> [options EXCEPT !.flags = ToNumber(word)]
      [] name = "exptime" -> [options EXCEPT !.exptime = ToNumber(word)]
      [] name = "bytes" -> [options EXCEPT !.bytes = ToNumber(word)]
      [] name = "value" -> [options EXCEPT !.value = Num(ToNumber(word))]
      [] name = "argument" -> options

\* the loop over the syntax: the words run out (ok is FALSE), or every
\* argument takes one word and the words left over are returned; stats
\* ignores its argument, which the options of the model do not keep
RECURSIVE ReadArguments(_, _, _)
ReadArguments(syntax, words, options) ==
    IF syntax = <<>> THEN [ok |-> TRUE, words |-> words, options |-> options]
    ELSE IF words = <<>>
    THEN IF Head(syntax).type # "OptionalString"
         THEN [ok |-> FALSE, words |-> words, options |-> options]
         ELSE ReadArguments(Tail(syntax), words, options)
    ELSE ReadArguments(Tail(syntax), Tail(words),
                       SetOption(options, Head(syntax).name, Head(words)))

\* reset(): no command (<<>> for null), no options, no data
Parser_reset ==
    [command |-> <<>>, options |-> NoOptions, data |-> <<>>, bytesRemaining |-> 0]

\* what a call on the parser leaves: the parser, its cache, the purge
\* callbacks queued, and the value returned
Reply(parser, c, ticks, result) ==
    [parser |-> parser, cache |-> c, ticks |-> ticks, result |-> result]

\* (mutant) pendingData leaves bytesRemaining as it is
Parser_pendingData_NoBytes(parser, c, command, options) ==
    Reply([parser EXCEPT !.command = command, !.options = options],
          c, 0, Str(<<>>))

\* pendingData(command, options)
Parser_pendingData(parser, c, command, options) ==
    Reply([parser EXCEPT !.command = command, !.options = options,
                         !.bytesRemaining = options.bytes],
          c, 0, Str(<<>>))

\* (mutant) an exception of the interpreter is answered with ERROR
Caught_NoMessage(parser, o) ==
    IF o.result.type = "throw"
    THEN Reply(parser, o.cache, o.ticks, Str(<<"ERROR">>))
    ELSE Reply(parser, o.cache, o.ticks, o.result)

\* the try and catch around interpret in readCommand: o is what the
\* interpreter returned or threw
Caught(parser, o) ==
    IF o.result.type = "throw"
    THEN Reply(parser, o.cache, o.ticks, Str(<<"CLIENT_ERROR ">> \o o.result.s))
    ELSE Reply(parser, o.cache, o.ticks, o.result)

\* (mutant) words left over after the syntax are ignored
ReadOptions_LeftoverIgnored(parser, c, command, read, t) ==
    IF ~read.ok
    THEN Reply(parser, c, 0, Str(<<"CLIENT_ERROR bad command line format">>))
    ELSE IF read.options.bytes # 0
    THEN Parser_pendingData(parser, c, command, read.options)
    ELSE Caught(parser, Interpreter_interpret(c, command, read.options, t))

\* readCommand after the loop over the syntax: read is what the loop left
ReadOptions(parser, c, command, read, t) ==
    IF ~read.ok
    THEN Reply(parser, c, 0, Str(<<"CLIENT_ERROR bad command line format">>))
    ELSE IF read.words # <<>> THEN Reply(parser, c, 0, Str(<<"ERROR">>))
    ELSE IF read.options.bytes # 0
    THEN Parser_pendingData(parser, c, command, read.options)
    ELSE Caught(parser, Interpreter_interpret(c, command, read.options, t))

\* readCommand from words.shift() on
ReadWords(parser, c, command, words, t) ==
    IF command = W_quit THEN Reply(parser, c, 0, Str(command))
    ELSE IF command \notin SyntaxCommands
    THEN Reply(parser, c, 0, Str(<<"ERROR">>))
    ELSE ReadOptions(parser, c, command,
                     ReadArguments(SYNTAXES(command), words, NoOptions), t)

\* the words of a line: line.trim().split(/\s+/)
WordsOf(line) == SplitWords(Trim(line))

\* readCommand(line)
Parser_readCommand(parser, c, line, t) ==
    ReadWords(parser, c, Head(WordsOf(line)), Tail(WordsOf(line)), t)

\* the end of readData: the interpreter's result is returned after reset()
Interpreted(o) == Reply(Parser_reset, o.cache, o.ticks, o.result)

\* (mutant) a chunk that is too long is refused without reset()
Parser_readData_NoReset(parser, c, line, t) ==
    IF Len(line) < parser.bytesRemaining
    THEN Reply([parser EXCEPT !.data = parser.data \o line,
                              !.bytesRemaining = parser.bytesRemaining - Len(line)],
               c, 0, Str(<<>>))
    ELSE IF Len(RightTrim(RightTrim(line, LF), CR)) > parser.bytesRemaining
    THEN Reply(parser, c, 0, Str(<<"CLIENT_ERROR bad data chunk">>))
    ELSE Interpreted(Interpreter_interpret(c, parser.command, parser.options, t))

\* readData(line); interpret is not inside a try here: set, add and
\* replace, the commands that take data, throw nothing
Parser_readData(parser, c, line, t) ==
    IF Len(line) < parser.bytesRemaining
    THEN Reply([parser EXCEPT !.data = parser.data \o line,
                              !.bytesRemaining = parser.bytesRemaining - Len(line)],
               c, 0, Str(<<>>))
    ELSE IF Len(RightTrim(RightTrim(line, LF), CR)) > parser.bytesRemaining
    THEN Reply(Parser_reset, c, 0, Str(<<"CLIENT_ERROR bad data chunk">>))
    ELSE Interpreted(Interpreter_interpret(c, parser.command, parser.options, t))

\* readLine(line)
Parser_readLine(parser, c, line, t) ==
    IF parser.command = <<>> THEN Parser_readCommand(parser, c, line, t)
    ELSE Parser_readData(parser, c, line, t)

-----------------------------------------------------------------------------
(* Connection (lib/server.js:244-326).                                     *)

\* the options bin/nodecached.js starts the server with name no limit
ServerCache == Cache(0, 0)

\* new Connection(options, log): a new Parser, hence a new Interpreter and
\* a new Cache; written is what was passed to socket.write, ended is
\* whether socket.end() was called
Connection ==
    [parser |-> Parser_reset, cache |-> ServerCache, written |-> <<>>,
     ended |-> FALSE]

\* the index i (from 0) of the first "\r\n" of data, 0 when there is none
RECURSIVE FirstCRLF(_, _)
FirstCRLF(data, i) ==
    IF i >= Len(data) THEN 0
    ELSE IF data[i + 1] = CR /\ i + 2 <= Len(data) /\ data[i + 2] = LF THEN i
    ELSE FirstCRLF(data, i + 1)

\* (mutant) the purge callbacks are never run
RunPurges_Never(c, ticks, usageMb, t) == c

\* the purge callbacks queued by the handler run before the next event
RECURSIVE RunPurges(_, _, _, _)
RunPurges(c, ticks, usageMb, t) ==
    IF ticks = 0 THEN c
    ELSE RunPurges(Cache_purge(c, usageMb, t), ticks - 1, usageMb, t)

\* readData from the test of the result on: last is what the last call of
\* readLine left, with the purge callbacks of both calls
Respond(conn, last, usageMb, t) ==
    [conn EXCEPT
        !.parser = last.parser,
        !.cache = RunPurges(last.cache, last.ticks, usageMb, t),
        !.ended = conn.ended \/ last.result = Str(W_quit),
        !.written = IF last.result # Str(W_quit) /\ ~Falsy(last.result)
                    THEN Append(conn.written, last.result.s \o CRLF)
                    ELSE conn.written]

\* if (rest) result = this.parser.readLine(rest): the first result is dropped
ReadRest(first, rest, t) ==
    IF rest = <<>> THEN first
    ELSE [Parser_readLine(first.parser, first.cache, rest, t)
             EXCEPT !.ticks = @ + first.ticks]

\* readData from the split at the first CRLF on: rn is its index, or 0
ReadLines(conn, data, rn, usageMb, t) ==
    Respond(conn,
            ReadRest(Parser_readLine(conn.parser, conn.cache,
                                     IF rn # 0 THEN SubSeq(data, 1, rn) ELSE data,
                                     t),
                     IF rn # 0 THEN SubSeq(data, rn + 3, Len(data)) ELSE <<>>,
                     t),
            usageMb, t)

\* readData(data) on a connection, with options.fast not set
Connection_readData(conn, data, usageMb, t) ==
    IF data[1] = EOT THEN [conn EXCEPT !.ended = TRUE]
    ELSE ReadLines(conn, data, FirstCRLF(data, 0), usageMb, t)

-----------------------------------------------------------------------------
(* The server and its clients: what arrives on the connections.            *)

Conns == {"A", "B"}
ServerKeys == {"a"}

\* a storage header as a client writes it
HeaderLine(verb, key, flags, exptime, bytes) ==
    verb \o <<SP, key, SP>> \o NumberToString(flags) \o <<SP>>
         \o NumberToString(exptime) \o <<SP>> \o NumberToString(bytes) \o CRLF

\* one segment: the command it carries (for the record of the last call)
\* and its bytes
Segment(op, key, amount, data) ==
    [op |-> op, key |-> key, amount |-> amount, data |-> data]

Payload0 == <<"0">>
PayloadAB == <<"a", "b">>

\* set k 0 0 1 with the payload "0", in one segment
SetZero(key) ==
    Segment("set", key, 0,
            HeaderLine(W_set, key, 0, 0, Len(Payload0)) \o Payload0 \o CRLF)

Segments ==
    UNION {
        { SetZero(key),
          Segment("set", key, 0,
                  HeaderLine(W_set, key, 1, 1, Len(PayloadAB)) \o PayloadAB \o CRLF),
          Segment("header", key, 0, HeaderLine(W_set, key, 0, 0, Len(Payload0))),
          Segment("incr", key, 1, W_incr \o <<SP, key, SP, "1">> \o CRLF),
          Segment("decr", key, 1, W_decr \o <<SP, key, SP, "1">> \o CRLF),
          Segment("get", key, 0, W_get \o <<SP, key>> \o CRLF),
          Segment("gets", key, 0, W_get \o <<SP, key>> \o CRLF
                                      \o W_get \o <<SP, key>> \o CRLF),
          Segment("delete", key, 0, W_delete \o <<SP, key>> \o CRLF) }
        : key \in ServerKeys }
    \cup { Segment("data", "", 0, Payload0 \o CRLF),
           Segment("bytes", "", 0, Payload0),
           Segment("crlf", "", 0, CRLF),
           Segment("quit", "", 0, W_quit \o CRLF),
           Segment("eot", "", 0, <<EOT>>) }

\* the connection of a client
ConnectionOf(c) == conns.connections[c]

InitServer ==
    /\ cache = ServerCache
    /\ now = StartTime
    /\ nextTick = 0
    /\ ret = NoCall
    /\ lastSet = [k \in Keys |-> NoSet]
    /\ conns = [connections |-> [c \in Conns |-> Connection], received |-> 0,
                streams |-> [c \in Conns |-> <<>>]]
    /\ counted = [k \in ServerKeys |-> <<>>]
    /\ timers = <<>>
    /\ client = <<>>

\* the response written by a data event, if any
Response(before, after) ==
    IF Len(after.written) > Len(before.written)
    THEN Str(after.written[Len(after.written)])
    ELSE Undefined

\* the "incr k 1" commands counted for k after a segment and its response
Counted(k, segment, response) ==
    IF segment = SetZero(k) /\ response = Str(<<"STORED">> \o CRLF) THEN <<0>>
    ELSE IF segment.op = "incr" /\ segment.key = k /\ counted[k] # <<>>
    THEN <<counted[k][1] + 1>>
    ELSE IF segment.op \in {"get", "gets", "quit", "eot"} \/ segment.key # k
    THEN counted[k]
    ELSE <<>>

\* a data event on connection c that leaves it as after
Received(c, segment, after) ==
    /\ conns' = [connections |-> [conns.connections EXCEPT ![c] = after],
                 received |-> conns.received + 1,
                 streams |-> [conns.streams EXCEPT ![c] = @ \o segment.data]]
    /\ ret' = [NoCall EXCEPT !.op = segment.op, !.key = segment.key,
                             !.amount = segment.amount,
                             !.result = Response(ConnectionOf(c), after),
                             !.conn = c,
                             !.responses = Len(after.written)
                                              - Len(ConnectionOf(c).written)]
    /\ counted' = [k \in ServerKeys |->
                      Counted(k, segment, Response(ConnectionOf(c), after))]
    /\ UNCHANGED <<cache, now, nextTick, lastSet, timers, client>>

\* the 'data' event of one connection, for a segment among segments
ReceiveOf(segments) ==
    \E c \in Conns, segment \in segments, usageMb \in UsagesMb :
        /\ ~ConnectionOf(c).ended
        /\ conns.received < MaxCommands
        /\ Received(c, segment,
                    Connection_readData(ConnectionOf(c), segment.data,
                                        usageMb, now))

Receive == ReceiveOf(Segments)

\* a second passes on the server
ServerSecond ==
    /\ now - StartTime < MaxSeconds
    /\ now' = now + 1
    /\ ret' = NoCall
    /\ UNCHANGED <<cache, nextTick, lastSet, conns, counted, timers, client>>

NextServer == Receive \/ ServerSecond

SpecServer == InitServer /\ [][NextServer]_vars

-----------------------------------------------------------------------------
(* SpecQuit: the server receiving quit, as a command and as a payload.     *)

\* the header of a set that announces four bytes
HeaderFour(key) == HeaderLine(W_set, key, 0, 0, Len(W_quit))

\* quit alone, quit followed by a get in the same segment, a get, and the
\* header of a set whose payload is as long as "quit"
QuitSegments ==
    { Segment("quit", "", 0, W_quit \o CRLF),
      Segment("quitget", "a", 0, W_quit \o CRLF \o W_get \o <<SP, "a">> \o CRLF),
      Segment("get", "a", 0, W_get \o <<SP, "a">> \o CRLF),
      Segment("header", "a", 0, HeaderFour("a")) }

QuitReceive == ReceiveOf(QuitSegments)
QuitSecond == ServerSecond

NextQuit == QuitReceive \/ QuitSecond

SpecQuit == InitServer /\ [][NextQuit]_vars

-----------------------------------------------------------------------------
(* SpecRelease: the ways a connection of the server ends, next to another  *)
(* connection that goes on.                                                *)

\* socket.on('error'): socket.end()
Connection_onError(conn) == [conn EXCEPT !.ended = TRUE]

\* the byte 4 alone, quit alone and before a get, and commands that
\* store, read and announce a payload
ReleaseSegments ==
    { Segment("eot", "", 0, <<EOT>>),
      Segment("quit", "", 0, W_quit \o CRLF),
      Segment("quitget", "a", 0, W_quit \o CRLF \o W_get \o <<SP, "a">> \o CRLF),
      SetZero("a"),
      Segment("get", "a", 0, W_get \o <<SP, "a">> \o CRLF),
      Segment("header", "a", 0, HeaderFour("a")) }

ReleaseReceive == ReceiveOf(ReleaseSegments)

\* the 'error' event of one connection
ReleaseError ==
    \E c \in Conns :
        /\ ~ConnectionOf(c).ended
        /\ conns.received < MaxCommands
        /\ Received(c, Segment("error", "", 0, <<>>),
                    Connection_onError(ConnectionOf(c)))

ReleaseSecond == ServerSecond

NextRelease == ReleaseReceive \/ ReleaseError \/ ReleaseSecond

SpecRelease == InitServer /\ [][NextRelease]_vars

-----------------------------------------------------------------------------
(* SpecPipeline: a server started with maxRecords, whose clients send one  *)
(* command or two in a segment.                                            *)

\* server.start({maxRecords: 1}) and server.start({maxRecords: 2})
PipelineCaches == {Cache(1, 0), Cache(2, 0)}

\* the header of a set of one byte, its payload alone and followed by a
\* delete, a delete alone and followed by a get, and a get
PipelineSegments ==
    { Segment("header", "a", 0, HeaderLine(W_set, "a", 0, 0, Len(Payload0))),
      Segment("data", "", 0, Payload0 \o CRLF),
      Segment("datadelete", "a", 0,
              Payload0 \o CRLF \o W_delete \o <<SP, "a">> \o CRLF),
      Segment("delete", "a", 0, W_delete \o <<SP, "a">> \o CRLF),
      Segment("deleteget", "a", 0,
              W_delete \o <<SP, "a">> \o CRLF \o W_get \o <<SP, "a">> \o CRLF),
      Segment("get", "a", 0, W_get \o <<SP, "a">> \o CRLF) }

InitPipeline ==
    /\ cache = ServerCache
    /\ now = StartTime
    /\ nextTick = 0
    /\ ret = NoCall
    /\ lastSet = [k \in Keys |-> NoSet]
    /\ \E config \in PipelineCaches :
           conns = [connections |->
                        [c \in Conns |-> [Connection EXCEPT !.cache = config]],
                    received |-> 0,
                    streams |-> [c \in Conns |-> <<>>]]
    /\ counted = [k \in ServerKeys |-> <<>>]
    /\ timers = <<>>
    /\ client = <<>>

PipelineReceive == ReceiveOf(PipelineSegments)
PipelineSecond == ServerSecond

NextPipeline == PipelineReceive \/ PipelineSecond

SpecPipeline == InitPipeline /\ [][NextPipeline]_vars

-----------------------------------------------------------------------------
(* SpecParser: one Parser, with its Interpreter and Cache, whose readLine  *)
(* is called with one line after another, as the tests of parser.js do.    *)

\* a line given to readLine: what it is (a verb, a malformed line, data),
\* the key it names and its characters
LineOf(op, key, data) == [op |-> op, key |-> key, data |-> data]

\* <verb> <key> <flags> 0 <bytes>, without the CRLF
StorageLine(op, verb, key, flags, bytes) ==
    LineOf(op, key,
           verb \o <<SP, key, SP>> \o NumberToString(flags) \o <<SP, "0", SP>>
                \o NumberToString(bytes))

W_append == <<"a", "p", "p", "e", "n", "d">>
W_prepend == <<"p", "r", "e", "p", "e", "n", "d">>
W_flush == <<"f", "l", "u", "s", "h">>
W_flush_all == <<"f", "l", "u", "s", "h", "_", "a", "l", "l">>
W_verbosity == <<"v", "e", "r", "b", "o", "s", "i", "t", "y">>

\* the well-formed command lines of the protocol, one or two for each verb
CommandLines ==
    { StorageLine("set", W_set, "a", 0, 1),
      StorageLine("set", W_set, "a", 1, 3),
      StorageLine("add", W_add, "a", 0, 1),
      StorageLine("replace", W_replace, "a", 0, 1),
      StorageLine("append", W_append, "a", 0, 1),
      StorageLine("prepend", W_prepend, "a", 0, 1),
      LineOf("get", "a", W_get \o <<SP, "a">>),
      LineOf("delete", "a", W_delete \o <<SP, "a">>),
      LineOf("incr", "a", W_incr \o <<SP, "a", SP, "1">>),
      LineOf("decr", "a", W_decr \o <<SP, "a", SP, "1">>),
      LineOf("touch", "a", W_touch \o <<SP, "a", SP, "1">>),
      LineOf("stats", "", W_stats),
      LineOf("flush", "", W_flush),
      LineOf("flush_all", "", W_flush_all),
      LineOf("version", "", W_version),
      LineOf("verbosity", "", W_verbosity \o <<SP, "1">>),
      LineOf("quit", "", W_quit) }

\* an unknown verb, a missing argument, a word too many
MalformedLines ==
    { LineOf("unknown", "", <<"b", "o", "g", "u", "s">>),
      LineOf("missing", "", W_get),
      LineOf("leftover", "a", W_get \o <<SP, "a", SP, "b">>) }

\* payloads: one byte and two bytes with their CRLF, one byte without
DataLines ==
    { LineOf("data", "", <<"0">> \o CRLF),
      LineOf("data", "", <<"0", "1">> \o CRLF),
      LineOf("data", "", <<"0">>) }

Lines == CommandLines \cup MalformedLines \cup DataLines

\* "Header" when readLine will read a command, "Payload" when data
StateOf(parser) == IF parser.command = <<>> THEN "Header" ELSE "Payload"

\* readData reaches the call of interpret with this line
Interprets(parser, line) ==
    /\ parser.command # <<>>
    /\ Len(line) >= parser.bytesRemaining
    /\ Len(RightTrim(RightTrim(line, LF), CR)) <= parser.bytesRemaining

\* self.data when readData calls interpret
DataPassed(parser, line) == parser.data \o RightTrim(RightTrim(line, LF), CR)

\* the key the line is about: its own, or the one of the pending command
KeyOfLine(parser, line) ==
    IF parser.command # <<>> THEN parser.options.key[1] ELSE line.key

\* the last storage command answered STORED, kept while only get follows
StoredBy(parser, line, r) ==
    IF Interprets(parser, line.data) /\ r.result = Str(<<"STORED">>)
    THEN [lastSet EXCEPT ![KeyOfLine(parser, line)] =
             SetRecord(Str(DataPassed(parser, line.data)),
                       parser.options.exptime, parser.options.flags)]
    ELSE IF parser.command = <<>> /\ line.op \in {"get", "stats", "version"}
    THEN lastSet
    ELSE [k \in Keys |-> NoSet]

\* parser.readLine(line) returns r
LineRead(line, r) ==
    /\ nextTick + r.ticks <= MaxPending
    /\ cache' = r.cache
    /\ nextTick' = nextTick + r.ticks
    /\ conns' = [parser |-> r.parser, lines |-> conns.lines + 1]
    /\ ret' = [NoCall EXCEPT !.op = line.op,
                             !.key = KeyOfLine(conns.parser, line),
                             !.amount = conns.parser.options.bytes,
                             !.value = Str(line.data),
                             !.state = StateOf(conns.parser),
                             !.result = r.result]
    /\ lastSet' = StoredBy(conns.parser, line, r)
    /\ UNCHANGED <<now, counted, timers, client>>

ReadLine ==
    \E line \in Lines :
        /\ conns.lines < MaxLines
        /\ LineRead(line, Parser_readLine(conns.parser, cache, line.data, now))

ParserPurge == PurgeRuns
ParserTick == SecondPasses

InitParser ==
    /\ cache = ServerCache
    /\ now = StartTime
    /\ nextTick = 0
    /\ ret = NoCall
    /\ lastSet = [k \in Keys |-> NoSet]
    /\ conns = [parser |-> Parser_reset, lines |-> 0]
    /\ counted = <<>>
    /\ timers = <<>>
    /\ client = <<>>

NextParser == ReadLine \/ ParserPurge \/ ParserTick

SpecParser == InitParser /\ [][NextParser]_vars

-----------------------------------------------------------------------------
(* SpecPayload: one Parser given the headers of set, with a number of      *)
(* bytes that is positive or negative, and the lines of their payloads.    *)

\* set a 0 0 <bytes> for one byte, three bytes and minus one byte, a get,
\* and payloads of one byte and two bytes, with and without their CRLF
PayloadLines ==
    { StorageLine("set", W_set, "a", 0, 1),
      StorageLine("set", W_set, "a", 0, 3),
      StorageLine("set", W_set, "a", 0, 0 - 1),
      LineOf("get", "a", W_get \o <<SP, "a">>),
      LineOf("data", "", <<"0">> \o CRLF),
      LineOf("data", "", <<"0", "1">> \o CRLF),
      LineOf("data", "", <<"0">>) }

PayloadReadLine ==
    \E line \in PayloadLines :
        /\ conns.lines < MaxLines
        /\ LineRead(line, Parser_readLine(conns.parser, cache, line.data, now))

PayloadPurge == PurgeRuns

NextPayload == PayloadReadLine \/ PayloadPurge

SpecPayload == InitParser /\ [][NextPayload]_vars

-----------------------------------------------------------------------------
(* Properties of the cache.                                                *)

\* the last set of key k, when no later call changed k
SetOf(k) == lastSet[k][1]

NoLimits == cache.maxRecords = 0 /\ cache.maxSizeMb = 0

\* C1 as stated: after set(k, v, 0), get(k) is v until a call stores to,
\* mutates or deletes k or flushes, under every configuration of the cache.
C1_GetAfterSetAnyConfig ==
    \A k \in Keys :
        (lastSet[k] # NoSet /\ SetOf(k).exp = 0)
            => Cache_get(cache, k, now) = SetOf(k).value

\* C1 amended: in a cache without limits (maxRecords = 0, maxSizeMb = 0),
\* after set(k, v, 0), get(k) is v until a call stores to, mutates or
\* deletes k or flushes; calls on other keys, the clock and purge passes in
\* between change nothing of it.
C1_GetAfterSet ==
    \A k \in Keys :
        (NoLimits /\ lastSet[k] # NoSet /\ SetOf(k).exp = 0)
            => Cache_get(cache, k, now) = SetOf(k).value

\* "a" was set for ever, time passed, and the other key has just been deleted
C1_Witness ==
    /\ NoLimits
    /\ lastSet["a"] # NoSet
    /\ SetOf("a").exp = 0
    /\ SetOf("a").at < now
    /\ ret.op = "delete" /\ ret.key = "b" /\ ret.result = True
    /\ Cache_get(cache, "a", now) = SetOf("a").value

\* C3: with maxRecords = M > 0, once no purge pass is pending the cache
\* holds at most M records.
C3_Capacity ==
    (cache.maxRecords > 0 /\ nextTick = 0)
        => Cache_size(cache) <= cache.maxRecords

\* two records were stored under maxRecords = 2 and the purges have run
C3_Witness ==
    /\ cache.maxRecords = 2
    /\ cache.totalItems = 2
    /\ nextTick = 0
    /\ Cache_size(cache) = 1

C5_Step ==
    LET k == ret'.key
        was == Cache_contains(cache, k, now)
    IN  /\ ret'.op = "add" => (ret'.result = True <=> ~was)
        /\ ret'.op = "replace" => (ret'.result = True <=> was)
        /\ (ret'.op \in {"add", "replace"} /\ ret'.result # True)
              => (ret'.result = False /\ cache' = cache /\ nextTick' = nextTick)
        /\ (ret'.op \in {"add", "replace"} /\ ret'.result = True)
              => /\ lastSet'[k] # NoSet
                 /\ HasKey(cache'.records, k)
                 /\ RecordOf(cache'.records, k) =
                       [ value |-> lastSet'[k][1].value,
                         flags |-> lastSet'[k][1].flags,
                         expiration |-> IF ret'.exp = 0 THEN 0 ELSE now + ret'.exp,
                         expirationSeconds |-> <<>> ]
                 /\ \A j \in Keys \ {k} :
                       /\ HasKey(cache'.records, j) <=> HasKey(cache.records, j)
                       /\ HasKey(cache.records, j) =>
                             RecordOf(cache'.records, j) = RecordOf(cache.records, j)
                 /\ cache'.totalItems = cache.totalItems + 1
                 /\ nextTick' = nextTick + 1

C5_AddReplace == [][C5_Step]_vars

\* replace has just been refused for a key that is in the map but expired
C5_Witness ==
    /\ ret.op = "replace"
    /\ ret.result = False
    /\ HasKey(cache.records, ret.key)
    /\ cache.totalItems > 0

\* C6: incr and decr of a numeric value give max(0, v + d), d the signed
\* amount, as the value returned and as the value stored; nothing below 0
\* is returned or stored by them.
C6_Step ==
    LET k == ret'.key
        d == IF ret'.op = "incr" THEN ret'.amount ELSE 0 - ret'.amount
        old == RecordOf(cache.records, k).value
        sum == ParseInt(old) + d
        clamped == IF sum < 0 THEN 0 ELSE sum
    IN  ret'.op \in {"incr", "decr"} =>
            /\ (Cache_contains(cache, k, now) /\ IsNumber(old))
                  => ret'.result.type = "number"
            /\ ret'.result.type = "number" =>
                  /\ Cache_contains(cache, k, now)
                  /\ ret'.result.n = clamped
                  /\ ret'.result.n >= 0
                  /\ RecordOf(cache'.records, k).value = Num(clamped)
                  /\ Cache_get(cache', k, now') = Num(clamped)

C6_IncrDecr == [][C6_Step]_vars

\* decr has just been clamped: the value stored and returned is 0
C6_Witness ==
    /\ ret.op = "decr"
    /\ ret.amount = 3
    /\ ret.result = Num(0)
    /\ Cache_get(cache, ret.key, now) = Num(0)

\* C9 as stated: after touch(k, exp) returned true, the expiration of the
\* record is the one the expiration encoding gives for exp.
C9_TouchSetsExpiration ==
    (ret.op = "touch" /\ ret.result = True)
        => RecordOf(cache.records, ret.key).expiration =
              Record(Undefined, ret.exp, 0, now).expiration

\* C10 as stated: set with 2592000 gives a record that expires 30 days
\* from now, and set with 2592001 one that expires at Unix time 2592001.
C10_ThirtyDays ==
    (ret.op = "set" /\ HasKey(cache.records, ret.key)) =>
        /\ ret.exp = MAX_RELATIVE_SECONDS
              => RecordOf(cache.records, ret.key).expiration
                    = now + MAX_RELATIVE_SECONDS
        /\ ret.exp = MAX_RELATIVE_SECONDS + 1
              => RecordOf(cache.records, ret.key).expiration
                    = MAX_RELATIVE_SECONDS + 1

C11_Step ==
    LET k == ret'.key
        old == RecordOf(cache.records, k)
        text == ValueText(IF old.value.type = "string" THEN old.value
                          ELSE JSONStringify(old.value))
    IN  ret'.op \in {"append", "prepend"} =>
            IF Cache_contains(cache, k, now)
            THEN /\ ret'.result = True
                 /\ RecordOf(cache'.records, k) =
                       [old EXCEPT !.value =
                           IF ret'.op = "append"
                           THEN Str(text \o ret'.value.s)
                           ELSE Str(ret'.value.s \o text)]
                 /\ cache'.totalItems = cache.totalItems
                 /\ Cache_size(cache') = Cache_size(cache)
                 /\ nextTick' = nextTick
            ELSE ret'.result = False /\ cache' = cache /\ nextTick' = nextTick

\* C11: on a present key append stores old ++ v and prepend v ++ old, a
\* value that is not a string being first replaced by its JSON text, and
\* both return true; flags, expiration and totalItems stay as they were;
\* on an absent or expired key both return false and change nothing
C11_AppendPrepend == [][C11_Step]_vars

\* append has just been made to a number left by incr: "3" ++ "x"
C11_Witness ==
    /\ ret.op = "append"
    /\ ret.result = True
    /\ ret.value = Str(<<"x">>)
    /\ Cache_get(cache, ret.key, now) = Str(<<"3", "x">>)

C20_Step ==
    /\ cache'.totalItems >= Cache_size(cache')
    /\ cache'.totalItems >= cache.totalItems
    /\ cache'.totalItems =
          IF ret'.op \in {"set", "add", "replace"} /\ ret'.result = True
          THEN cache.totalItems + 1
          ELSE cache.totalItems

\* C20: totalItems is never below the number of records; no call lowers
\* it, flush and delete included; every set, add or replace that returns
\* true adds exactly one, also when it overwrites a key, and nothing else
\* changes it
C20_TotalItems == [][C20_Step]_vars

\* one key was set twice: one record, two items in total
C20_Witness ==
    /\ ret.op = "set"
    /\ cache.totalItems = 2
    /\ Cache_size(cache) = 1
    /\ nextTick = 2

-----------------------------------------------------------------------------
(* Properties of the server (SpecServer).                                  *)

\* the key of a segment as the parser reads it: a word
KeyWord(key) == <<key>>

\* a response line as the connection writes it
Line(tokens) == Str(tokens \o CRLF)

\* C2 (as stated): every connection of a server works on one Cache, so
\* once a set is answered STORED on one connection the key is in the cache
\* that any connection reads
C2_SharedCache ==
    (ret.op = "set" /\ ret.result = Line(<<"STORED">>)) =>
        \A c \in Conns :
            Cache_contains(ConnectionOf(c).cache, KeyWord(ret.key), now)

\* C7 (as stated): after "0" is stored under k, the n-th "incr k 1" that
\* arrives, on whatever connection, is answered n and leaves n under k for
\* every connection
C7_SerialIncr ==
    \A k \in ServerKeys :
        (ret.op = "incr" /\ ret.key = k /\ counted[k] # <<>>) =>
            /\ ret.result = Line(NumberToString(counted[k][1]))
            /\ \A c \in Conns :
                   LET value == Cache_get(ConnectionOf(c).cache, KeyWord(k), now)
                   IN  IsNumber(value) /\ ParseInt(value) = counted[k][1]

C8_Step ==
    (conns'.received = conns.received + 1 /\ ret'.op \in {"incr", "decr"}) =>
        LET before == ConnectionOf(ret'.conn)
            after == conns'.connections[ret'.conn]
            key == KeyWord(ret'.key)
            untouched == /\ after.cache = before.cache
                         /\ after.parser = Parser_reset
                         /\ ~after.ended
        IN  before.parser.command = <<>> =>
                IF Cache_contains(before.cache, key, now)
                THEN ~IsNumber(RecordOf(before.cache.records, key).value) =>
                         /\ ret'.result =
                                Line(<<"CLIENT_ERROR ", NonNumericMessage>>)
                         /\ untouched
                ELSE /\ ret'.result = Line(<<"NOT_FOUND">>)
                     /\ untouched

\* C8: an incr or decr line that reaches a parser waiting for a command is
\* answered "CLIENT_ERROR cannot increment or decrement non-numeric value"
\* when the key holds a value that is not an integer, and NOT_FOUND when
\* the key is absent or expired; in both cases the cache is as it was and
\* the parser waits for the next command
C8_IncrErrors == [][C8_Step]_vars

\* an incr was answered with the client error on a key that is present
C8_Witness ==
    /\ ret.op = "incr"
    /\ ret.result = Line(<<"CLIENT_ERROR ", NonNumericMessage>>)
    /\ Cache_contains(ConnectionOf(ret.conn).cache, KeyWord(ret.key), now)

\* all that a connection wrote, as one sequence of characters
RECURSIVE Flatten(_)
Flatten(written) ==
    IF written = <<>> THEN <<>> ELSE Head(written) \o Flatten(Tail(written))

\* C12 (as stated): a segment that holds two command lines, "get k" twice,
\* gets two responses written, one for the line before the first CRLF and
\* one for the rest
C12_ResponsePerCommand ==
    ret.op = "gets" => ret.responses = 2

\* C13 (as stated): two connections that received the same bytes, split
\* into segments in whatever way, while the clock stood still, wrote the
\* same bytes and hold the same cache
C13_AnySegmentation ==
    \A c1, c2 \in Conns :
        (now = StartTime /\ conns.streams[c1] = conns.streams[c2]) =>
            /\ Flatten(ConnectionOf(c1).written) = Flatten(ConnectionOf(c2).written)
            /\ ConnectionOf(c1).cache = ConnectionOf(c2).cache

\* C14 (as stated): when all a connection received is a storage header,
\* its payload bytes in a second segment and the CRLF in a third, all it
\* wrote is STORED
C14_CRLFAtBoundary ==
    \A c \in Conns, k \in ServerKeys :
        (/\ conns.streams[c] = SetZero(k).data
         /\ ret.op = "crlf" /\ ret.conn = c)
            => Flatten(ConnectionOf(c).written) = <<"STORED">> \o CRLF

\* the connection c after the step
ConnectionAfter(c) == conns'.connections[c]

C30_Step ==
    \A c \in Conns :
        (ret'.conn = c /\ ret'.op \in {"quit", "quitget"}) =>
            IF StateOf(ConnectionOf(c).parser) = "Header"
            THEN /\ ConnectionAfter(c).ended
                 /\ ConnectionAfter(c).written = ConnectionOf(c).written
            ELSE ret'.op = "quit" =>
                 /\ ~ConnectionAfter(c).ended
                 /\ ConnectionAfter(c).written
                        = Append(ConnectionOf(c).written, <<"STORED">> \o CRLF)
                 /\ Cache_get(ConnectionAfter(c).cache, <<"a">>, now')
                        = Str(W_quit)

\* C30 (as stated): a data event whose first line is quit, on a connection
\* whose parser waits for a command, ends the connection and writes
\* nothing; the segment quit received as the payload of a set of four
\* bytes is stored as the value, answered STORED, and the connection stays
C30_QuitCloses == [][C30_Step]_vars

\* the data event of the step starts with the byte 4, or is a quit command
\* read by a parser waiting for a command, or the step is a socket error
Exits(c) ==
    /\ ret'.conn = c
    /\ \/ ret'.op \in {"eot", "error"}
       \/ /\ ret'.op \in {"quit", "quitget"}
          /\ StateOf(ConnectionOf(c).parser) = "Header"

C31_Step ==
    \A c \in Conns :
        Exits(c) =>
            /\ ConnectionAfter(c).ended
            /\ ConnectionAfter(c).written = ConnectionOf(c).written
            /\ ConnectionAfter(c).cache = ConnectionOf(c).cache
            /\ \A d \in Conns \ {c} : ConnectionAfter(d) = ConnectionOf(d)

\* C31 (as stated): a segment whose first byte is EOT, a quit command and
\* a socket error each end the connection they arrive on, write no
\* response and leave its cache as it was, and leave every other
\* connection as it was
C31_Released == [][C31_Step]_vars

\* the bytes connection c receives in the step
SegmentOf(c) ==
    SubSeq(conns'.streams[c], Len(conns.streams[c]) + 1, Len(conns'.streams[c]))

\* the commands whose functions look the key up in the cache
ReadingCommands == {W_get, W_delete, W_incr, W_decr, W_touch, W_add, W_replace}

\* readLine(line) on this parser has a command look its key up
Reads(parser, line) ==
    IF StateOf(parser) = "Header"
    THEN FirstWord(TrimLeft(line)) \in ReadingCommands \ {W_add, W_replace}
    ELSE Interprets(parser, line) /\ parser.command \in ReadingCommands

\* readData(data) calls readLine(rest) while a purge queued by
\* readLine(line) is pending, and the command of the rest reads the cache
ReadsBeforePurge(conn, data, rn, first) ==
    /\ rn # 0
    /\ Len(data) > rn + 2
    /\ first.ticks > 0
    /\ Reads(first.parser, SubSeq(data, rn + 3, Len(data)))

C34_Step ==
    \A c \in Conns :
        (ret'.conn = c /\ SegmentOf(c) # <<>>) =>
            ~ReadsBeforePurge(ConnectionOf(c), SegmentOf(c),
                              FirstCRLF(SegmentOf(c), 0),
                              Parser_readLine(ConnectionOf(c).parser,
                                              ConnectionOf(c).cache,
                                              SubSeq(SegmentOf(c), 1,
                                                     FirstCRLF(SegmentOf(c), 0)),
                                              now))

-----------------------------------------------------------------------------
(* Properties of the parser (SpecParser).                                  *)

\* a step that is a call of readLine
IsReadLine == conns'.lines = conns.lines + 1

\* the line less one trailing LF and then one trailing CR
Chunk(line) ==
    LET noLF == IF line # <<>> /\ line[Len(line)] = LF
                THEN SubSeq(line, 1, Len(line) - 1) ELSE line
    IN  IF noLF # <<>> /\ noLF[Len(noLF)] = CR
        THEN SubSeq(noLF, 1, Len(noLF) - 1) ELSE noLF

C15_Step ==
    (/\ IsReadLine
     /\ StateOf(conns.parser) = "Payload"
     /\ Len(Chunk(ret'.value.s)) > conns.parser.bytesRemaining)
        => /\ ret'.result = Str(<<"CLIENT_ERROR bad data chunk">>)
           /\ conns'.parser = Parser_reset
           /\ cache' = cache
           /\ nextTick' = nextTick

\* C15: a line given to a parser in Payload state that, less its trailing
\* CR and LF, is longer than bytesRemaining is answered "CLIENT_ERROR bad
\* data chunk"; the parser is then in Header state with no data kept and
\* the cache is as it was
C15_BadDataChunk == [][C15_Step]_vars

\* a chunk was refused after one byte of the payload had been kept, and the
\* parser reads commands again
C15_Witness ==
    /\ ret.state = "Payload"
    /\ ret.result = Str(<<"CLIENT_ERROR bad data chunk">>)
    /\ ret.amount = 3
    /\ conns.lines >= 3
    /\ conns.parser = Parser_reset

C16_Step ==
    (IsReadLine /\ StateOf(conns.parser) = "Header"
        /\ ret'.op \in {"unknown", "missing", "leftover"})
        => /\ ret'.result =
                 IF ret'.op = "missing"
                 THEN Str(<<"CLIENT_ERROR bad command line format">>)
                 ELSE Str(<<"ERROR">>)
           /\ conns'.parser = conns.parser
           /\ cache' = cache
           /\ nextTick' = nextTick

\* C16: in Header state a line with an unknown verb is answered ERROR, one
\* with a required argument missing "CLIENT_ERROR bad command line format",
\* one with words left over ERROR; the parser stays in Header state and
\* the cache is as it was
C16_ParseErrors == [][C16_Step]_vars

\* "get a b" was given while a is in the cache and was answered ERROR
C16_Witness ==
    /\ ret.op = "leftover"
    /\ ret.state = "Header"
    /\ ret.result = Str(<<"ERROR">>)
    /\ Cache_contains(cache, <<"a">>, now)

\* C17 (as stated): in Header state no well-formed command line, whatever
\* its verb among the sixteen of the protocol, is answered ERROR
C17_CompleteCommandSet ==
    (ret.state = "Header"
        /\ \E line \in CommandLines : line.op = ret.op /\ Str(line.data) = ret.value)
        => ret.result # Str(<<"ERROR">>)

\* C18 (as stated): when a storage command is answered STORED, the data
\* the parser had for it is as long as the header announced
C18_ByteCount ==
    (ret.state = "Payload" /\ ret.result = Str(<<"STORED">>))
        => Len(SetOf(ret.key).value.s) = ret.amount

\* 'VALUE ' + key + ' ' + flags + ' ' + bytes + CRLF + data + CRLF + 'END'
ValueResponse(key, flags, data) ==
    Str(<<"VALUE ", key, " ">> \o NumberToString(flags) \o <<" ">>
            \o NumberToString(Len(data)) \o CRLF \o data \o CRLF \o <<"END">>)

\* C19 (as stated): get of a key whose storage command was answered STORED,
\* with no expiration and nothing but reads since, is answered with the
\* VALUE block of the payload that was sent; get of a key that is not in
\* the cache is answered END
C19_ValueRoundTrip ==
    (ret.op = "get" /\ ret.state = "Header") =>
        IF lastSet[ret.key] # NoSet /\ SetOf(ret.key).exp = 0
        THEN ret.result = ValueResponse(ret.key, SetOf(ret.key).flags,
                                        SetOf(ret.key).value.s)
        ELSE ~Cache_contains(cache, <<ret.key>>, now) => ret.result = Str(<<"END">>)

\* 'VALUE ' + key + ' ' + flags: the start of the VALUE line
ValueLineStart(key, flags) == <<"VALUE ", key, " ">> \o NumberToString(flags)

\* C24 (as stated): while nothing but reads followed a storage command
\* with flags f that was answered STORED, the response to get of its key
\* starts with the VALUE line of that key carrying f
C24_FlagsVerbatim ==
    (ret.op = "get" /\ ret.state = "Header" /\ lastSet[ret.key] # NoSet) =>
        /\ ret.result.type = "string"
        /\ Len(ret.result.s) > Len(ValueLineStart(ret.key, SetOf(ret.key).flags))
        /\ SubSeq(ret.result.s, 1,
                  Len(ValueLineStart(ret.key, SetOf(ret.key).flags)))
               = ValueLineStart(ret.key, SetOf(ret.key).flags)

\* the verbs whose syntax has bytes
StorageVerbs == {W_set, W_add, W_replace}

\* the parser waits for the payload of a header: bytesRemaining is
\* positive (or, when signed, any number but 0), at most the bytes of the
\* header, and what lacks of them
PayloadState(parser, signed) ==
    /\ parser.command \in StorageVerbs
    /\ IF signed THEN parser.bytesRemaining # 0 ELSE parser.bytesRemaining > 0
    /\ parser.bytesRemaining <= parser.options.bytes
    /\ Len(parser.data) + parser.bytesRemaining = parser.options.bytes

\* the options readCommand reads from a line
OptionsOf(line) ==
    ReadArguments(SYNTAXES(Head(WordsOf(line))), Tail(WordsOf(line)),
                  NoOptions).options

ParserStep(signed) ==
    IsReadLine =>
        /\ \/ conns'.parser = Parser_reset
           \/ PayloadState(conns'.parser, signed)
        /\ (ret'.result.type = "string" /\ ret'.result.s # <<>>)
               => conns'.parser = Parser_reset
        /\ (StateOf(conns.parser) = "Header" /\ StateOf(conns'.parser) = "Payload")
               => /\ conns'.parser.command = Head(WordsOf(ret'.value.s))
                  /\ conns'.parser.options = OptionsOf(ret'.value.s)
        /\ (StateOf(conns.parser) = "Payload" /\ StateOf(conns'.parser) = "Payload")
               => /\ conns'.parser.command = conns.parser.command
                  /\ conns'.parser.options = conns.parser.options

\* C38 (as stated): after every call of readLine the parser is in Header
\* state (no command, no options, no data, bytesRemaining 0) or in Payload
\* state (the command is a storage verb, the options are those of its
\* header, 0 < bytesRemaining <= the bytes of the header, and the length
\* of data plus bytesRemaining is the bytes of the header); it is in
\* Header state after every call that returns a response that is not empty
C38_ParserStates == [][ParserStep(FALSE)]_vars

\* C38 (amended): the same, with bytesRemaining any number but 0 in
\* Payload state: it is negative after a header that announces a negative
\* number of bytes
C38_ParserStatesSigned == [][ParserStep(TRUE)]_vars

\* the parser waits for the payload of a header of minus one byte
C38_Witness ==
    /\ StateOf(conns.parser) = "Payload"
    /\ conns.parser.bytesRemaining < 0
    /\ conns.lines > 1

-----------------------------------------------------------------------------
(* Properties of flush, flush_all and getRecord (SpecFlush).               *)

C21_Step ==
    /\ ret'.op = "flush" =>
           /\ ret'.result = True
           /\ Cache_size(cache') = 0
           /\ \A k \in Keys : Cache_get(cache', k, now') = Null
           /\ \A k \in Keys, v \in Values, exp \in Expirations, f \in FlagsSet :
                  Cache_add(cache', k, v, exp, f, now').result = True
           /\ timers' = timers
           /\ nextTick' = nextTick
    /\ (ret.op = "flush" /\ ret'.op \in {"set", "add"}) =>
           /\ ret'.result = True
           /\ Cache_size(cache') = 1
           /\ Cache_get(cache', ret'.key, now') = lastSet'[ret'.key][1].value

\* C21: flush() returns true and leaves an empty map: right after it get
\* is absent for every key, size() is 0 and add succeeds for every key;
\* it queues nothing, and a record stored right after it is there to be read
C21_FlushEmpties == [][C21_Step]_vars

\* a flush ran after items were stored, with a purge of theirs still queued
C21_Witness ==
    /\ ret.op = "flush"
    /\ cache.totalItems > 0
    /\ nextTick > 0
    /\ Cache_size(cache) = 0

C22_Step ==
    /\ ret'.op = "flush_all" =>
           /\ ret'.result = True
           /\ cache' = cache
           /\ Len(timers') = Len(timers) + 1
    /\ ret'.op = "timeout" =>
           /\ Cache_size(cache') = 0
           /\ \A k \in Keys : Cache_get(cache', k, now') = Null
           /\ Len(timers') = Len(timers) - 1

\* C22 (as stated): flush_all(d) returns true without changing the records
\* and queues one timer of its own; when a timer fires, d seconds later or
\* more, the cache it was called on has no record left
C22_FlushAllFlushes == [][C22_Step]_vars

\* C23 (as stated): getRecord(k) is absent exactly when get(k) is: it
\* returns the record of k when k is present and valid, and nothing when
\* k is missing or expired
C23_GetRecordLikeGet ==
    ret.op = "getRecord" =>
        IF Cache_contains(cache, ret.key, now)
        THEN ret.record = <<RecordOf(cache.records, ret.key)>>
        ELSE ret.record = <<>> /\ ret.result = Undefined

\* C23 (amended): getRecord(k) returns the full record of k whenever k is
\* in the map, expired or not, and is absent only when k is missing; it
\* changes nothing
C23_GetRecord ==
    ret.op = "getRecord" =>
        IF HasKey(cache.records, ret.key)
        THEN /\ ret.record = <<RecordOf(cache.records, ret.key)>>
             /\ ret.result = Obj
             /\ Cache_get(cache, ret.key, now) \in {Null, ret.record[1].value}
        ELSE ret.record = <<>> /\ ret.result = Undefined

\* getRecord returned a record that get no longer returns
C23_Witness ==
    /\ ret.op = "getRecord"
    /\ ret.record # <<>>
    /\ ~Cache_contains(cache, ret.key, now)

-----------------------------------------------------------------------------
(* The client (lib/client.js:188-935): a Client and the ServerConnection   *)
(* it opens for each location.  Rounding of the weights is left out: a     *)
(* weight is the fraction num/den.  options.noResponse is not set.         *)

\* a function passed as a callback, known by its name
Fn(name) == [type |-> "function", s |-> <<name>>, n |-> 0]

\* parseInt(message, 10) when the message does not start with a digit
NaN == [type |-> "number", s |-> <<"NaN">>, n |-> 0]

\* what running a handler does: the calls made on callbacks of the caller,
\* the exceptions thrown and left uncaught, the results given to the task
\* callbacks of async.parallel
NoEffect == [calls |-> <<>>, thrown |-> <<>>, reports |-> <<>>]

Throws(message) == [NoEffect EXCEPT !.thrown = <<message>>]

\* callback(error, result), for whatever value callback holds
Call(callback, error, result) ==
    IF callback.type = "function"
    THEN [NoEffect EXCEPT !.calls =
             <<[callback |-> callback.s[1], error |-> error, result |-> result]>>]
    ELSE Throws("callback is not a function")

\* syntaxes.remap(command)
Syntaxes_remap(command) ==
    CASE command \in {"add", "replace", "append", "prepend"} -> "set"
      [] command = "decr" -> "incr"
      [] command = "flush_all" -> "flush"
      [] OTHER -> command

\* the keys of syntaxes.commandMap
CommandMap ==
    {"get", "set", "delete", "incr", "touch", "stats", "flush", "version",
     "add", "replace", "append", "prepend", "decr", "flush_all"}

\* getSyntax(command).output, read the other way round: JSON.parse(key)
\* of the key whose text is result, <<>> when there is none
Syntaxes_output(command, result) ==
    CASE command = "get" /\ result = <<"END">> -> <<Null>>
      [] command = "set" /\ result = <<"STORED">> -> <<True>>
      [] command = "set" /\ result = <<"NOT_STORED">> -> <<False>>
      [] command = "delete" /\ result = <<"DELETED">> -> <<True>>
      [] command = "delete" /\ result = <<"NOT_FOUND">> -> <<False>>
      [] command = "incr" /\ result = <<"NOT_FOUND">> -> <<False>>
      [] command = "touch" /\ result = <<"TOUCHED">> -> <<True>>
      [] command = "touch" /\ result = <<"NOT_FOUND">> -> <<False>>
      [] command = "flush" /\ result = <<"OK">> -> <<True>>
      [] OTHER -> <<>>

\* this['parse' + mapped.capitalize()]: the name of the method, "" when
\* the connection has none
ParserOf(mapped) ==
    IF mapped \in {"get", "incr", "stats", "version"} THEN mapped ELSE ""

\* result == 'ERROR' || result.startsWith('CLIENT_ERROR ')
IsErrorResult(result) ==
    \/ result = <<"ERROR">>
    \/ result # <<>> /\ Head(result) \in
          {"CLIENT_ERROR ", "CLIENT_ERROR bad command line format",
           "CLIENT_ERROR bad data chunk"}

\* parseIncr(message, callback)
ServerConnection_parseIncr(message, callback) ==
    Call(callback, Null,
         IF DigitPrefix(message) = <<>> THEN NaN ELSE Num(ParseInt(Str(message))))

\* handler(result, callback): the method is called without its object;
\* parseGet reads this.parseGetMessage and parseStats, parseVersion and
\* parseIncr do not use this
Handle(handler, result, callback) ==
    CASE handler = "get" ->
            Throws("Cannot read property 'parseGetMessage' of undefined")
      [] handler = "incr" -> ServerConnection_parseIncr(result, callback)
      [] handler = "stats" -> Call(callback, Null, Obj)
      [] handler = "version" ->
            Call(callback, Null, Str(SubSeq(result, 2, Len(result))))

\* the handlers this.pending holds: the callback given to the constructor
\* (the one getConnectionCreator makes for its location), or the function
\* getPending returns
CreatorCallback(location) ==
    [kind |-> "creator", command |-> location, callback |-> Undefined,
     handler |-> ""]

ServerConnection_getPending(command, callback, handler) ==
    [kind |-> "pending", command |-> command, callback |-> callback,
     handler |-> handler]

\* the function getPending returned is called with (error, result)
Pending(h, error, result) ==
    IF ~Falsy(error) THEN Call(h.callback, error, Undefined)
    ELSE IF result.type # "string"
    THEN Throws("Cannot read property 'trim' of undefined")
    ELSE IF IsErrorResult(Trim(result.s))
    THEN Call(h.callback, Str(Trim(result.s)), Undefined)
    ELSE IF Syntaxes_output(h.command, Trim(result.s)) # <<>>
    THEN Call(h.callback, Null, Syntaxes_output(h.command, Trim(result.s))[1])
    ELSE IF h.handler = ""
    THEN Call(h.callback, Str(<<"Unrecognized result ">> \o Trim(result.s)),
              Undefined)
    ELSE Handle(h.handler, Trim(result.s), h.callback)

\* (mutant) the creator passes the error of its connection on
ConnectionCreator_PassesError(location, error) ==
    [NoEffect EXCEPT !.reports =
        <<[location |-> location, error |-> error,
           value |-> IF Falsy(error) THEN "connection" ELSE "undefined"]>>]

\* the callback getConnectionCreator gives to its ServerConnection: the
\* task of async.parallel is reported done, with the connection or without
ConnectionCreator(location, error) ==
    [NoEffect EXCEPT !.reports =
        <<[location |-> location, error |-> Null,
           value |-> IF Falsy(error) THEN "connection" ELSE "undefined"]>>]

\* this.pending(error, result)
RunPending(h, error, result) ==
    IF h.kind = "creator" THEN ConnectionCreator(h.command, error)
    ELSE Pending(h, error, result)

\* getAutomaticCommander(command, syntax): the function it returns is an
\* arrow function, so that arguments are those of getAutomaticCommander,
\* the command and its syntax, whatever the caller passes: no callback is
\* found among them and the line written is made of them
ObjectText == <<"[object", SP, "Object]">>

CommanderArguments(command) == <<Str(<<command>>), Obj>>

CallbackAmong(arguments) ==
    IF \E i \in 1..Len(arguments) : arguments[i].type = "function"
    THEN arguments[CHOOSE i \in 1..Len(arguments) :
                       /\ arguments[i].type = "function"
                       /\ \A j \in (i + 1)..Len(arguments) :
                             arguments[j].type # "function"]
    ELSE Undefined

RECURSIVE Joined(_)
Joined(arguments) ==
    IF arguments = <<>> THEN <<>>
    ELSE IF Head(arguments).type = "function" THEN Joined(Tail(arguments))
    ELSE <<SP>> \o (IF Head(arguments) = Obj THEN ObjectText
                    ELSE Head(arguments).s) \o Joined(Tail(arguments))

\* the connection after the function of getAutomaticCommander ran on it
AutomaticCommander(connection, command, passed) ==
    [connection EXCEPT
        !.written = Append(@, <<command>> \o Joined(CommanderArguments(command))
                                \o CRLF),
        !.pending = ServerConnection_getPending(
                        Syntaxes_remap(command),
                        CallbackAmong(CommanderArguments(command)),
                        ParserOf(Syntaxes_remap(command)))]

\* new ServerConnection(location, options, callback) for a location
\* host:port: the socket is connecting, the callback is pending
ServerConnection(location) ==
    [socket |-> "connecting", pending |-> CreatorCallback(location),
     weight |-> [num |-> 0, den |-> 1], written |-> <<>>]

\* Math.random() is one of 0, 1/Draws, ... (Draws - 1)/Draws
Draws == 4

\* a weight in units of 1/(den * Draws); the weights of the connections of
\* a client have the same den
WeightUnits(connection) == connection.weight.num * Draws

RECURSIVE TotalWeight(_, _)
TotalWeight(connections, sc) ==
    IF connections = <<>> THEN 0
    ELSE (sc[Head(connections).location].weight.num)
            + TotalWeight(Tail(connections), sc)

\* the second loop of pickRandomConnection: "" for null
RECURSIVE PickLoop(_, _, _)
PickLoop(connections, sc, targetWeight) ==
    IF connections = <<>> THEN ""
    ELSE IF targetWeight - WeightUnits(sc[Head(connections).location]) <= 0
    THEN Head(connections).location
    ELSE PickLoop(Tail(connections), sc,
                  targetWeight - WeightUnits(sc[Head(connections).location]))

\* pickRandomConnection() when Math.random() is draw/Draws: the location of
\* the connection returned, "" for null; reading the weight of a location
\* whose connection is undefined throws
Client_pickRandomConnection(c, draw) ==
    IF \E i \in 1..Len(c.connections) : c.connections[i].value = "undefined"
    THEN [location |-> "",
          thrown |-> <<"Cannot read property 'weight' of undefined">>]
    ELSE [location |-> PickLoop(c.connections, c.sc,
                                draw * TotalWeight(c.connections, c.sc)),
          thrown |-> <<>>]

\* the function getDistributor(name) returns, called with (passed): it is
\* an arrow function too, and applies the function of the connection to
\* the arguments of getDistributor
Client_distribute(c, name, passed, picked) ==
    IF picked.thrown # <<>> THEN [c EXCEPT !.thrown = @ \o picked.thrown]
    ELSE IF picked.location = ""
    THEN [c EXCEPT !.thrown = Append(@, "Cannot read property of null")]
    ELSE [c EXCEPT
             !.sc[picked.location] =
                 AutomaticCommander(@, name, <<Str(<<name>>)>>),
             !.issued[picked.location] =
                 <<[name |-> name, callback |-> CallbackAmong(passed)]>>]

\* the callback of async.parallel in initConnections, with no error: every
\* connection that was made gets the weight 1 / result.countProperties()
Weighted(result, sc) ==
    [l \in DOMAIN sc |->
        IF \E i \in 1..Len(result) :
              result[i].location = l /\ result[i].value = "connection"
        THEN [sc[l] EXCEPT !.weight = [num |-> 1, den |-> Len(result)]]
        ELSE sc[l]]

Client_connected(c, error, result) ==
    IF ~Falsy(error)
    THEN [c EXCEPT !.done = TRUE, !.callback = Append(@, error)]
    ELSE [c EXCEPT !.done = TRUE,
                   !.sc = Weighted(result, c.sc),
                   !.connections = result,
                   !.callback = Append(@, Null)]

\* async.parallel(tasks, callback): the callback of a task is called with
\* report.  A task reports once: a second call throws; an error ends the
\* whole at once; the last result ends it with every result.
Async_parallel(c, report) ==
    IF \E i \in 1..Len(c.results) : c.results[i].location = report.location
    THEN [c EXCEPT !.thrown = Append(@, "Callback was already called.")]
    ELSE IF ~Falsy(report.error)
    THEN IF c.done THEN c ELSE Client_connected(c, report.error, <<>>)
    ELSE LET result == Append(c.results,
                              [location |-> report.location,
                               value |-> report.value])
         IN  IF Len(result) = Cardinality(DOMAIN c.sc) /\ ~c.done
             THEN Client_connected([c EXCEPT !.results = result], Null, result)
             ELSE [c EXCEPT !.results = result]

\* the client after a handler ran
Handled(c, effect) ==
    LET after == [c EXCEPT !.calls = @ \o effect.calls,
                           !.thrown = @ \o effect.thrown,
                           !.events = @ + 1]
    IN  IF effect.reports = <<>> THEN after
        ELSE Async_parallel(after, effect.reports[1])

\* new Client(locations, options, callback) for an array of locations:
\* async.parallel has run every task, which made its ServerConnection
Client(locations) ==
    [ sc |-> [l \in locations |-> ServerConnection(l)],
      connections |-> <<>>,
      results |-> <<>>,
      done |-> FALSE,
      callback |-> <<>>,
      calls |-> <<>>,
      thrown |-> <<>>,
      issued |-> [l \in locations |-> <<>>],
      events |-> 0,
      operations |-> 0 ]

\* an event of the socket of location l runs the pending handler
SocketEvent(l, name, socket, error, result, logical) ==
    /\ client.events < MaxEvents
    /\ client' = Handled([client EXCEPT !.sc[l].socket = socket],
                         RunPending(client.sc[l].pending, error, result))
    /\ ret' = [NoCall EXCEPT
                  !.op = name, !.conn = l, !.value = result,
                  !.result = logical,
                  !.record = RunPending(client.sc[l].pending, error, result).calls]
    /\ UNCHANGED <<cache, now, nextTick, lastSet, conns, counted, timers>>

OnConnect(locations) ==
    \E l \in locations :
        /\ client.sc[l].socket = "connecting"
        /\ SocketEvent(l, "connect", "connected", Null, Undefined, Undefined)

OnEnd(locations) ==
    \E l \in locations :
        /\ client.sc[l].socket = "connected"
        /\ SocketEvent(l, "end", "ended", Null, Undefined, Undefined)

\* the error of a socket: the handler runs, then the socket is destroyed
OnError(locations) ==
    \E l \in locations :
        /\ client.sc[l].socket \in {"connecting", "connected"}
        /\ SocketEvent(l, "error", "destroyed", Str(<<"ECONNREFUSED">>),
                       Undefined, Undefined)

OnTimeout(locations) ==
    \E l \in locations :
        /\ client.sc[l].socket \in {"connecting", "connected"}
        /\ SocketEvent(l, "timeout", client.sc[l].socket, Str(<<"timeout">>),
                       Undefined, Undefined)

\* data arrives: one of the exchanges, the response a server wrote with the
\* result its cache had computed
OnData(locations, exchanges) ==
    \E l \in locations, exchange \in exchanges :
        /\ client.sc[l].socket = "connected"
        /\ exchange.name \in {"", IF client.issued[l] = <<>> THEN ""
                                  ELSE client.issued[l][1].name}
        /\ SocketEvent(l, "data", "connected", Null, Str(exchange.message),
                       exchange.logical)

\* the caller, once the client called back, calls client[name](..., callback)
Operate(names) ==
    \E name \in names, draw \in 0..(Draws - 1) :
        /\ client.callback # <<>>
        /\ client.operations < MaxOperations
        /\ client' = [Client_distribute(
                          client, name,
                          <<Str(<<"a">>), Fn(Digits[client.operations + 1])>>,
                          Client_pickRandomConnection(client, draw))
                        EXCEPT !.operations = @ + 1]
        /\ ret' = [NoCall EXCEPT
                      !.op = name,
                      !.conn = Client_pickRandomConnection(client, draw).location,
                      !.amount = draw,
                      !.value = Fn(Digits[client.operations + 1])]
        /\ UNCHANGED <<cache, now, nextTick, lastSet, conns, counted, timers>>

InitClient(locations) ==
    /\ cache = ServerCache
    /\ now = StartTime
    /\ nextTick = 0
    /\ ret = NoCall
    /\ lastSet = [k \in Keys |-> NoSet]
    /\ conns = <<>>
    /\ counted = <<>>
    /\ timers = <<>>
    /\ client = Client(locations)

-----------------------------------------------------------------------------
(* SpecClient: a client of two locations, the events of its sockets and    *)
(* the operations of its caller.                                           *)

ClientLocations == {"x:1", "y:2"}
ClientOperations == {"get", "incr"}

\* a response with nothing known of the server that wrote it
Response_END == [name |-> "", message |-> <<"END">> \o CRLF, logical |-> Null]

ClientResponses == {Response_END}

InitClientSpec == InitClient(ClientLocations)

ClientConnect == OnConnect(ClientLocations)
ClientEnd == OnEnd(ClientLocations)
ClientError == OnError(ClientLocations)
ClientTimeout == OnTimeout(ClientLocations)
ClientData == OnData(ClientLocations, ClientResponses)
ClientOperate == Operate(ClientOperations)

NextClient ==
    \/ ClientConnect
    \/ ClientEnd
    \/ ClientError
    \/ ClientTimeout
    \/ ClientData
    \/ ClientOperate

SpecClient == InitClientSpec /\ [][NextClient]_vars

-----------------------------------------------------------------------------
(* SpecRoundTrip: a client of one server.  Every response is the one the   *)
(* server of the model writes for the operation as a command of the        *)
(* protocol, on key a, from a cache that is empty or holds a.              *)

RoundTripLocations == {"x:1"}

RoundTripOperations ==
    {"get", "set", "add", "replace", "append", "prepend", "delete", "incr",
     "decr", "touch"}

WordOf(name) ==
    CASE name = "get" -> W_get
      [] name = "set" -> W_set
      [] name = "add" -> W_add
      [] name = "replace" -> W_replace
      [] name = "append" -> W_append
      [] name = "prepend" -> W_prepend
      [] name = "delete" -> W_delete
      [] name = "incr" -> W_incr
      [] name = "decr" -> W_decr
      [] name = "touch" -> W_touch

\* the operation on key a as the protocol writes it: the value is "1", and
\* so are the amount and the expiration
WireCommand(name) ==
    IF Syntaxes_remap(name) = "set"
    THEN HeaderLine(WordOf(name), "a", 0, 0, 1) \o <<"1">> \o CRLF
    ELSE IF name \in {"get", "delete"} THEN WordOf(name) \o <<SP, "a">> \o CRLF
    ELSE WordOf(name) \o <<SP, "a", SP, "1">> \o CRLF

\* what the same operation of the Cache returns
CacheResult(name, c, t) ==
    CASE name = "get" -> Cache_get(c, <<"a">>, t)
      [] name = "set" -> Cache_set(c, <<"a">>, Str(<<"1">>), 0, 0, t).result
      [] name = "add" -> Cache_add(c, <<"a">>, Str(<<"1">>), 0, 0, t).result
      [] name = "replace" -> Cache_replace(c, <<"a">>, Str(<<"1">>), 0, 0, t).result
      [] name = "append" -> Cache_append(c, <<"a">>, Str(<<"1">>), t).result
      [] name = "prepend" -> Cache_prepend(c, <<"a">>, Str(<<"1">>), t).result
      [] name = "delete" -> Cache_delete(c, <<"a">>, t).result
      [] name = "incr" -> Cache_incr(c, <<"a">>, 1, t).result
      [] name = "decr" -> Cache_decr(c, <<"a">>, 1, t).result
      [] name = "touch" -> Cache_touch(c, <<"a">>, 1, t).result

\* a server connection whose cache is c
ServerWith(c) == [Connection EXCEPT !.cache = c]

\* the caches of a server: new, and after "set a 0 0 1" with its payload
ServerCaches ==
    {ServerCache,
     Connection_readData(Connection, SetZero("a").data, 0, StartTime).cache}

RECURSIVE Written(_)
Written(written) ==
    IF written = <<>> THEN <<>> ELSE Head(written) \o Written(Tail(written))

Exchange(name, c) ==
    [name |-> name,
     message |-> Written(Connection_readData(ServerWith(c), WireCommand(name),
                                             0, StartTime).written),
     logical |-> CacheResult(name, c, StartTime)]

\* the exchanges in which the server wrote something
Exchanges ==
    {exchange \in {Exchange(name, c) : name \in RoundTripOperations,
                                       c \in ServerCaches} :
        exchange.message # <<>>}

InitRoundTrip == InitClient(RoundTripLocations)

RoundTripConnect == OnConnect(RoundTripLocations)
RoundTripOperate == Operate(RoundTripOperations)
RoundTripData == OnData(RoundTripLocations, Exchanges)

NextRoundTrip ==
    \/ RoundTripConnect
    \/ RoundTripOperate
    \/ RoundTripData

SpecRoundTrip == InitRoundTrip /\ [][NextRoundTrip]_vars

-----------------------------------------------------------------------------
(* Properties of the client (SpecRoundTrip, SpecClient).                   *)

\* the operation last issued on the connection the last event came from
IssuedOn(l) == client.issued[l][1]

\* the one call of the caller's callback with (error, result)
OneCall(callback, error, result) ==
    <<[callback |-> callback.s[1], error |-> error, result |-> result]>>

\* C25 (as stated): when the response the server wrote for an operation,
\* whose cache operation returned a value, reaches the client, the callback
\* of the operation is called once, with no error and with that value
C25_RoundTrip ==
    (ret.op = "data" /\ ret.conn # "" /\ client.issued[ret.conn] # <<>>
        /\ ret.result.type # "throw")
        => ret.record = OneCall(IssuedOn(ret.conn).callback, Null, ret.result)

\* C26 (as stated): when a response that is ERROR, or starts with
\* CLIENT_ERROR, reaches the client, the callback of the operation is called
\* once with that response as its error and with no result
C26_ErrorResponses ==
    (ret.op = "data" /\ ret.conn # "" /\ client.issued[ret.conn] # <<>>
        /\ IsErrorResult(Trim(ret.value.s)))
        => ret.record = OneCall(IssuedOn(ret.conn).callback,
                                Str(Trim(ret.value.s)), Undefined)

\* no handler is pending
Cleared(h) == h.kind = "null"

C27_Step ==
    /\ \A l \in DOMAIN client.sc :
           (ret'.op = "data" /\ ret'.conn = l) => Cleared(client'.sc[l].pending)
    /\ \A i, j \in 1..Len(client'.calls) :
           client'.calls[i].callback = client'.calls[j].callback => i = j

\* C27 (as stated): once data was delivered to the pending handler of a
\* connection no handler is pending there, and no callback of an operation
\* is called twice
C27_PendingCleared == [][C27_Step]_vars

\* every task of async.parallel has reported
AllReported == Len(client.results) = Cardinality(DOMAIN client.sc)

\* C28: the callback of the Client is called once every location has
\* reported its connect result, not before, with no error, and never again
\* whatever happens on the connections later
C28_CallbackOnce ==
    client.callback = IF AllReported THEN <<Null>> ELSE <<>>

\* the client called back, and a connection that had reported ran the
\* callback of its creator again
C28_Witness ==
    /\ client.callback = <<Null>>
    /\ \E i \in 1..Len(client.thrown) :
           client.thrown[i] = "Callback was already called."
    /\ \E i \in 1..Len(client.results) : client.results[i].value = "undefined"

\* the locations whose connection was opened
Opened == {l \in DOMAIN client.sc :
              \E i \in 1..Len(client.results) :
                  client.results[i] = [location |-> l, value |-> "connection"]}

\* C29 (as stated): an operation goes, with the callback of the caller, to
\* one connection, which was opened; and the connections that were opened
\* all weigh 1/N, N being their number
C29_Dispatch ==
    ret.op \in CommandMap =>
        /\ ret.conn \in Opened
        /\ client.sc[ret.conn].pending.callback = ret.value
        /\ \A l \in Opened :
               client.sc[l].weight = [num |-> 1, den |-> Cardinality(Opened)]

\* the response of the operation just issued on l, the only one in flight
\* there, arrives
Answered(l) ==
    /\ ret.op \in CommandMap /\ ret.conn = l
    /\ ret'.op = "data" /\ ret'.conn = l

C40_Step ==
    \A l \in DOMAIN client.sc :
        Answered(l) =>
            /\ \E i \in 1..Len(client'.calls) :
                   client'.calls[i].callback = IssuedOn(l).callback.s[1]
            /\ \A i \in 1..Len(ret'.record) :
                   ret'.record[i].callback = IssuedOn(l).callback.s[1]

\* C40: on a connection with one operation in flight, when the response of
\* the operation arrives the callback of that operation has been called, and
\* the response is handed to no callback of another operation
C40_InOrder == [][C40_Step]_vars


-----------------------------------------------------------------------------
(* Properties of Record (SpecExpiry).                                      *)

-----------------------------------------------------------------------------
(* Properties of setItem and getItem (SpecItem).                           *)

\* the time at which the item last stored under k is to expire, <<>> if never
ExpiresAt(k) ==
    IF lastSet[k][1].options = <<>> THEN <<>>
    ELSE IF lastSet[k][1].options[1].expirationAbsolute # <<>>
    THEN lastSet[k][1].options[1].expirationAbsolute
    ELSE IF lastSet[k][1].options[1].expirationSeconds # 0
    THEN <<lastSet[k][1].at + lastSet[k][1].options[1].expirationSeconds>>
    ELSE <<>>

\* C32 (as stated): after setItem(k, v, options), getItem(k) returns v
\* before the time the options name (the absolute time T given in the
\* future, or the seconds given after the call) and absent from that time
\* on; without options it returns v at every time
C32_SetItemExpires ==
    \A k \in Keys :
        (lastSet[k] # NoSet /\ (ExpiresAt(k) # <<>> => ExpiresAt(k)[1] > lastSet[k][1].at))
            => Cache_getItem(cache, k, now)
                   = IF ExpiresAt(k) = <<>> \/ now < ExpiresAt(k)[1]
                     THEN lastSet[k][1].value
                     ELSE Null


-----------------------------------------------------------------------------
(* Properties of the purge of records (SpecEviction).                      *)

\* the step is a purge pass
IsPurge == nextTick' = nextTick - 1

\* the keys the step removes from the map
Removed == {k \in EvictionKeys : HasKey(cache.records, k) /\ ~HasKey(cache'.records, k)}

\* the number of records a purge pass is to remove
Excess ==
    IF Cache_size(cache) >= cache.maxRecords
    THEN Cache_size(cache) - cache.maxRecords + 1
    ELSE 0

C35_Step ==
    IsPurge =>
        /\ Cardinality(Removed) = Excess
        /\ \A r \in Removed, k \in EvictionKeys :
               (HasKey(cache.records, k) /\ lastSet[k][1].seq < lastSet[r][1].seq)
                   => k \in Removed

\* C35 (as stated): a purge pass that finds count >= maxRecords removes
\* records until count < maxRecords and no more, none otherwise, and it
\* removes a record only together with every record inserted before it
C35_FIFO == [][C35_Step]_vars

C35_OrderStep ==
    IsPurge =>
        /\ Cardinality(Removed) = Excess
        /\ cache'.records = SubSeq(cache.records, Excess + 1, Len(cache.records))
        /\ \A i, j \in 1..Len(cache.records) :
               i < j =>
                   LET ki == cache.records[i].key
                       kj == cache.records[j].key
                   IN  IF IsIndexKey(kj)
                       THEN IsIndexKey(ki) /\ DigitValue(ki) < DigitValue(kj)
                       ELSE IsIndexKey(ki) \/ lastSet[ki][1].seq < lastSet[kj][1].seq

\* C35 (amended): a purge pass that finds count >= maxRecords removes
\* records until count < maxRecords and no more, in the order for..in
\* visits the keys: the keys that are integers in ascending order, then
\* the other keys in the order of their insertion
C35_ForInOrder == [][C35_OrderStep]_vars

\* the purge removed the record of key 1 and left the one of key 2, which
\* was inserted before it
C35_Witness ==
    /\ nextTick = 0
    /\ ~HasKey(cache.records, "1")
    /\ HasKey(cache.records, "2")
    /\ lastSet["1"] # NoSet
    /\ lastSet["2"][1].seq < lastSet["1"][1].seq


-----------------------------------------------------------------------------
(* Properties of the purge of memory (SpecMemory).                         *)

C36_Step ==
    ret'.op = "purge" =>
        /\ ret'.amount < cache.maxSizeMb => cache'.records = cache.records
        /\ ret'.amount >= cache.maxSizeMb =>
               /\ \A i \in 1..Len(cache'.records) :
                      Record_isValid(cache'.records[i].record, now)
               /\ ret'.exp < cache.maxSizeMb =>
                      cache'.records = ValidRecords(cache.records, now)

\* C36 (as stated): a purge pass under maxSizeMb > 0 removes nothing when
\* the size sampled is below maxSizeMb; otherwise it removes every expired
\* record, and when the size is below maxSizeMb after that sweep it
\* removes no valid record
C36_MemoryPurge == [][C36_Step]_vars


-----------------------------------------------------------------------------
(* Properties of the reading methods (SpecRead).                           *)

ReadOps == {"get", "getItem", "getRecord", "contains", "size", "stats", "version"}

\* the record of k is in the map and has expired
Expired(c, k, t) == HasKey(c.records, k) /\ ~Record_isValid(RecordOf(c.records, k), t)

\* the step removes or replaces the record of k
Replaced(k) ==
    \/ ~HasKey(cache'.records, k)
    \/ RecordOf(cache'.records, k) # RecordOf(cache.records, k)

C37_Step ==
    /\ ret'.op \in ReadOps => (cache' = cache /\ nextTick' = nextTick)
    /\ ret'.op = "size" => ret'.result = Num(Len(cache.records))
    /\ ret'.op = "stats" =>
           /\ ret'.record[5] = <<"curr_items", NumberToString(Len(cache.records))>>
           /\ ret'.record[6] = <<"total_items", NumberToString(cache.totalItems)>>
    /\ \A k \in Keys :
           (Expired(cache, k, now) /\ Replaced(k))
               => \/ ret'.op \in {"set", "flush"} /\ ret'.key \in {k, ""}
                  \/ nextTick' = nextTick - 1

\* C37: get, getItem, getRecord, contains, size, stats and version leave
\* the cache as it was and queue no purge; size and curr_items count every
\* record of the map, expired ones included; and an expired record leaves
\* the map only by a set of its key, a flush or a purge pass
C37_ReadsKeepCache == [][C37_Step]_vars

\* get returned absent for a key whose expired record is still in the map
C37_Witness ==
    /\ ret.op = "get"
    /\ ret.result = Null
    /\ Expired(cache, ret.key, now)


C39_Step ==
    (IsPurge /\ cache.maxRecords > 0) =>
        /\ Cache_size(cache') < cache.maxRecords
        /\ cache.maxRecords = 1 => cache'.records = <<>>

\* C39: after every purge pass of a cache with maxRecords = M > 0 the map
\* holds fewer than M records; with M = 1 it holds none
C39_BelowMax == [][C39_Step]_vars

\* under maxRecords = 2 the purge passes of two sets have run and one
\* record is left, the other having been removed by no delete
C39_Witness ==
    /\ cache.maxRecords = 2
    /\ cache.totalItems = 2
    /\ nextTick = 0
    /\ Cache_size(cache) = 1
    /\ \E k \in EvictionKeys : lastSet[k] # NoSet /\ ~HasKey(cache.records, k)

=============================================================================
